---- MODULE Spec2Model ----
(***************************************************************************)
(* Model of the issue-tracker client (src/tools/jira/client.py), the       *)
(* reconciliation pass (src/projects/utilities.py, sync_entities_on_alm),  *)
(* the archive job tasks (src/projects/utilities.py, background_*_zip) and *)
(* the issue creation (background_issue_creation_on_alm and the single-  *)
(* entity operations) of captain-tool-integrations.                       *)
(*                                                                         *)
(* The specifications share the variables below:                           *)
(*   ClientSpec      one call of a JiraClient operation against a tracker  *)
(*                   that may answer every request with any status;        *)
(*   SearchFairSpec  a call of search_issues_by_label, run fairly;         *)
(*   ReconSpec       one reconciliation pass over a list of entity ids;    *)
(*   ArchiveSpec     a download job, from submission to its last write;    *)
(*   SyncSpec        one run of the issue creation over a version, or one  *)
(*                   single-entity creation;                               *)
(*   TokenSpec       calls of get_usage_access_token over the credential   *)
(*                   record and the secret manager;                        *)
(*   PayloadSpec     the issue payloads built and sent for a list of       *)
(*                   entities;                                             *)
(*   RaceSpec        two runs of the issue creation over one version.      *)
(***************************************************************************)
EXTENDS Integers, Sequences, FiniteSets, TLC

VARIABLES
    \* ---- JiraClient call in progress ----
    op,            \* operation being executed, "none" before the call
    pc,            \* position inside the operation
    result,        \* what the caller of the operation observes
    hasCred,       \* a secret-path document exists for the user
    secretVer,     \* version of the token pair stored in the secret manager
    hdrTok,        \* token version in the Authorization header of create/search
    sends,         \* number of POST/PUT requests sent by a create or an update
    refreshes,     \* forced refreshes (new_set=True) made by a create or an update
    sleeps,        \* number of time.sleep(retry_after) calls
    firstStatus,   \* status of the first response (0: none yet)
    lastStatus,    \* status of the latest response (0: none yet)
    stack,         \* update_testcase activation records, innermost last
    next_page_token, \* search_issues_by_label: continuation token
    found,         \* search_issues_by_label: number of issues collected
    \* ---- reconciliation pass ----
    rpc,           \* position inside sync_entities_on_alm
    entity_name,    \* 'testcases' | 'requirements'
    entity_ids,     \* the entity_ids argument
    tracker,       \* issues held by the tracker, in its answer order
    jira_issues,    \* the list returned by the search
    searches,      \* the labels the pass has called the search with, in order
    ridx,          \* index of the next id of entity_ids to reconcile
    store,         \* collection -> entity id -> stored sync fields
    writes,        \* entity id -> the field updates the pass has written to it
    results,       \* the results dict of the pass
    returned,      \* what the pass has returned: "", "results" or "None"
    \* ---- archive jobs ----
    jobs,          \* job id -> job document ("absent" before creation)
    task,          \* job id -> state of the background task of that job
    poll,          \* the latest call of get_download_job_status and its answer
    \* ---- issue creation on the tracker ----
    version_status, \* the status field of the version document
    requirements,  \* the requirement documents of the version, in read order
    testcases,     \* the testcase documents of the version, in read order
    run,           \* local state of background_issue_creation_on_alm
    one,           \* local state of create_one_{testcase,requirement}_on_alm
    events,        \* the store writes and tracker calls made so far, in order
    \* ---- credential store ----
    secret_path_doc, \* user -> secret_path of the credential record (<<>>: no record)
    secret,        \* secret path -> the versions of the secret, latest last
    issued,        \* number of token pairs the token endpoint has issued
    tcall,         \* the call of get_usage_access_token in progress or just ended
    \* ---- issue payloads ----
    built,         \* the payloads an operation has built and sent for its entities
    \* ---- two runs over one version ----
    runs,          \* run id -> local state of that run of the issue creation
    shared,        \* the requirement documents both runs read and write
    created,       \* the issues created on the tracker, in creation order
    \* ---- endpoints followed on their own ----
    cj,            \* a run of create_on_jira: its version, testcases and position
    oauth,         \* the saved OAuth states, the stored tokens and the callbacks
    gate           \* a version, its entities and the deletion requests answered

clientVars == <<op, pc, result, hasCred, secretVer, hdrTok, sends, refreshes,
                sleeps, firstStatus, lastStatus, stack, next_page_token, found>>
reconVars == <<rpc, entity_name, entity_ids, tracker, jira_issues, searches, ridx, store,
               writes, results, returned>>
archiveVars == <<jobs, task, poll>>
syncVars == <<version_status, requirements, testcases, run, one, events>>
tokenVars == <<secret_path_doc, secret, issued, tcall>>
payloadVars == <<built>>
raceVars == <<runs, shared, created>>
endpointVars == <<cj, oauth, gate>>
vars == <<clientVars, reconVars, archiveVars, syncVars, tokenVars, payloadVars, raceVars, endpointVars>>

----------------------------------------------------------------------------
(* Bounds of the model *)

\* depth at which the interpreter stops a recursion with RecursionError
MaxDepth == 6
\* largest number of issues a search collects before the tracker runs dry
MaxFound == 1
\* token versions from this one on are not told apart
MaxVer == 3

(* Program constants *)

\* range(5) in update_testcase
MaxAttempts == 5

\* status codes the tracker answers with: success with a body, success
\* without content, unauthorized, rate limited, server error
Statuses == {200, 204, 401, 429, 500}

\* continuation tokens; "" stands for None
PageTokens == {"", "p1", "p2"}

----------------------------------------------------------------------------
(* requests.Response.raise_for_status: raises for 4xx and 5xx *)
raise_for_status(s) == s >= 400

(* get_usage_access_token(uid, new_set): the outcomes it can have.         *)
(* "none": no secret-path document; "token": the stored or refreshed       *)
(* access token; "raise": the secret manager or the token endpoint failed. *)
TokenOutcomes(cred, newSet) ==
    IF ~cred THEN {"none"} ELSE {"token", "raise"}

(* secret version after get_usage_access_token: a forced refresh that      *)
(* succeeds stores the new pair as a new version                           *)
SecretAfter(ver, newSet, outcome) ==
    IF newSet /\ outcome = "token"
      THEN (IF ver < MaxVer THEN ver + 1 ELSE MaxVer)
      ELSE ver

ClientIdle ==
    /\ op = "none" /\ pc = "idle" /\ result = "none"
    /\ secretVer = 0 /\ hdrTok = 0
    /\ sends = 0 /\ refreshes = 0 /\ sleeps = 0
    /\ firstStatus = 0 /\ lastStatus = 0
    /\ stack = <<>> /\ next_page_token = "" /\ found = 0

Finish(r) == /\ pc' = "done" /\ result' = r

Observe(s) ==
    /\ sends' = sends + 1
    /\ firstStatus' = IF firstStatus = 0 THEN s ELSE firstStatus
    /\ lastStatus' = s

----------------------------------------------------------------------------
(* create_one_testcase / create_bulk_testcases *)

CreateOps == {"create_one", "create_bulk"}

\* token lookup, field check and payload construction, up to the first POST
CreateStart(o, valid, outcome) ==
    /\ pc = "idle"
    /\ o \in CreateOps
    /\ outcome \in TokenOutcomes(hasCred, FALSE)
    /\ op' = o
    /\ IF outcome # "token"
         THEN Finish("raised")
         ELSE IF o = "create_one" /\ ~valid
                THEN Finish("returned_none")
                ELSE pc' = "post" /\ result' = result
    /\ hdrTok' = secretVer
    /\ UNCHANGED <<reconVars, archiveVars, syncVars, tokenVars, payloadVars, raceVars, endpointVars>>
    /\ UNCHANGED <<hasCred, secretVer, sends, refreshes, sleeps, firstStatus,
                   lastStatus, stack, next_page_token, found>>

\* the first requests.post and the status checks that follow it
CreatePost(s) ==
    /\ op \in CreateOps /\ pc = "post"
    /\ Observe(s)
    /\ IF s = 401
         THEN pc' = "refresh" /\ result' = result
         ELSE Finish(IF raise_for_status(s) THEN "raised" ELSE "ok")
    /\ UNCHANGED <<reconVars, archiveVars, syncVars, tokenVars, payloadVars, raceVars, endpointVars>>
    /\ UNCHANGED <<op, hasCred, secretVer, hdrTok, refreshes, sleeps, stack,
                   next_page_token, found>>

\* get_usage_access_token(uid, new_set=True) after a 401
CreateRefresh(outcome) ==
    /\ op \in CreateOps /\ pc = "refresh"
    /\ outcome \in TokenOutcomes(hasCred, TRUE)
    /\ refreshes' = refreshes + 1
    /\ secretVer' = SecretAfter(secretVer, TRUE, outcome)
    /\ IF outcome = "raise"
         THEN Finish("raised") /\ hdrTok' = hdrTok
         ELSE pc' = "retry" /\ result' = result /\ hdrTok' = secretVer'
    /\ UNCHANGED <<reconVars, archiveVars, syncVars, tokenVars, payloadVars, raceVars, endpointVars>>
    /\ UNCHANGED <<op, hasCred, sends, sleeps, firstStatus, lastStatus, stack,
                   next_page_token, found>>

\* a retry that treats a second 401 like the first one
AfterRetry_RefreshAgain(s) == IF s = 401 THEN "refresh" ELSE "done"

\* where the operation goes after the response to the second POST: the
\* raise_for_status calls of lines 217/219 (296/298) end it either way
AfterRetry(s) == "done"

\* the second requests.post and both raise_for_status calls
CreateRetry(s) ==
    /\ op \in CreateOps /\ pc = "retry"
    /\ Observe(s)
    /\ IF AfterRetry(s) = "done"
         THEN Finish(IF raise_for_status(s) THEN "raised" ELSE "ok")
         ELSE pc' = AfterRetry(s) /\ result' = result
    /\ UNCHANGED <<reconVars, archiveVars, syncVars, tokenVars, payloadVars, raceVars, endpointVars>>
    /\ UNCHANGED <<op, hasCred, secretVer, hdrTok, refreshes, sleeps, stack,
                   next_page_token, found>>

----------------------------------------------------------------------------
(* update_testcase *)

\* an activation record of update_testcase: the loop counter and the token
\* version in its headers
Frame(tokv) == [attempt |-> 0, tok |-> tokv]

Top == stack[Len(stack)]

\* what the caller of update_testcase observes when the activation at depth
\* `depth` returns `value`: the outermost activation returns to the caller;
\* an inner one returns into line 328 of its parent, whose return value is
\* dropped and whose raise_for_status (line 339) then raises on the 401
\* response that started the recursion
ReturnFrom(depth, value) == IF depth = 1 THEN value ELSE "raised"

\* token lookup and field check of the outermost call, up to the first PUT
UpdateStart(valid, outcome) ==
    /\ pc = "idle"
    /\ outcome \in TokenOutcomes(hasCred, FALSE)
    /\ op' = "update"
    /\ IF outcome # "token"
         THEN Finish("raised") /\ stack' = stack
         ELSE IF ~valid
                THEN Finish("false") /\ stack' = stack
                ELSE /\ pc' = "put" /\ result' = result
                     /\ stack' = <<Frame(secretVer)>>
    /\ UNCHANGED <<reconVars, archiveVars, syncVars, tokenVars, payloadVars, raceVars, endpointVars>>
    /\ UNCHANGED <<hasCred, secretVer, hdrTok, sends, refreshes, sleeps,
                   firstStatus, lastStatus, next_page_token, found>>

\* one iteration of the loop of lines 323-339 in the innermost activation
UpdatePut(s) ==
    /\ op = "update" /\ pc = "put"
    /\ Top.attempt < MaxAttempts
    /\ Observe(s)
    /\ CASE s = 401 ->
              \* line 328: the recursive call; the interpreter refuses it at
              \* its recursion limit
              /\ IF Len(stack) >= MaxDepth
                   THEN Finish("raised")
                   ELSE pc' = "recurse" /\ result' = result
              /\ UNCHANGED <<stack, sleeps>>
         [] s = 204 ->
              /\ Finish(ReturnFrom(Len(stack), "true"))
              /\ UNCHANGED <<stack, sleeps>>
         [] s = 429 ->
              \* lines 335-339: sleep, then raise_for_status on the 429
              /\ sleeps' = sleeps + 1
              /\ Finish("raised")
              /\ stack' = stack
         [] OTHER ->
              /\ sleeps' = sleeps
              /\ IF raise_for_status(s)
                   THEN Finish("raised") /\ stack' = stack
                   ELSE IF Top.attempt + 1 = MaxAttempts
                          THEN \* line 344: gave up
                               /\ Finish(ReturnFrom(Len(stack), "false"))
                               /\ stack' = [stack EXCEPT ![Len(stack)].attempt = @ + 1]
                          ELSE /\ pc' = pc /\ result' = result
                               /\ stack' = [stack EXCEPT ![Len(stack)].attempt = @ + 1]
    /\ UNCHANGED <<reconVars, archiveVars, syncVars, tokenVars, payloadVars, raceVars, endpointVars>>
    /\ UNCHANGED <<op, hasCred, secretVer, hdrTok, refreshes, next_page_token, found>>

\* entry of the recursive activation: get_usage_access_token(uid, new_set=True)
UpdateRecurse(outcome) ==
    /\ op = "update" /\ pc = "recurse"
    /\ outcome \in TokenOutcomes(hasCred, TRUE)
    /\ refreshes' = refreshes + 1
    /\ secretVer' = SecretAfter(secretVer, TRUE, outcome)
    /\ IF outcome = "raise"
         THEN Finish("raised") /\ stack' = stack
         ELSE /\ pc' = "put" /\ result' = result
              /\ stack' = Append(stack, Frame(secretVer'))
    /\ UNCHANGED <<reconVars, archiveVars, syncVars, tokenVars, payloadVars, raceVars, endpointVars>>
    /\ UNCHANGED <<op, hasCred, hdrTok, sends, sleeps, firstStatus, lastStatus,
                   next_page_token, found>>

----------------------------------------------------------------------------
(* search_issues_by_label *)

\* what response.json() yields for a response of status s: a result page,
\* an error object (no 'issues', no 'isLast'), or a body that is no JSON
Bodies(s) ==
    CASE s = 200 -> {"page"}
      [] s = 204 -> {"not_json"}
      [] OTHER   -> {"error_object", "not_json"}

\* query_result.get('isLast', False): the flag, False when it is missing
IsLastOf(body, flag) == IF body = "page" THEN flag = "true" ELSE FALSE

\* lines 398-411 for a parsed response: collect the issues, take the token
\* and the flag, and leave the loop when the flag is set
SearchConsume(body, n, tokn, flag) ==
    IF body = "not_json"
      THEN Finish("raised") /\ UNCHANGED <<found, next_page_token>>
      ELSE /\ found' = IF body = "page" THEN found + n ELSE found
           /\ next_page_token' = IF body = "page" THEN tokn ELSE ""
           /\ IF IsLastOf(body, flag)
                THEN Finish("ok")
                ELSE pc' = "page" /\ result' = result

SearchStart(outcome) ==
    /\ pc = "idle"
    /\ outcome \in TokenOutcomes(hasCred, FALSE)
    /\ op' = "search"
    /\ IF outcome # "token"
         THEN Finish("raised")
         ELSE pc' = "page" /\ result' = result
    /\ hdrTok' = secretVer
    /\ UNCHANGED <<reconVars, archiveVars, syncVars, tokenVars, payloadVars, raceVars, endpointVars>>
    /\ UNCHANGED <<hasCred, secretVer, sends, refreshes, sleeps, firstStatus,
                   lastStatus, stack, next_page_token, found>>

\* one page request (line 387) and, unless it is answered 401, its processing
SearchPage(s, body, n, tokn, flag) ==
    /\ op = "search" /\ pc = "page"
    /\ body \in Bodies(s)
    /\ n \in 0..(MaxFound - found)
    /\ tokn \in PageTokens
    /\ flag \in {"true", "false", "missing"}
    /\ lastStatus' = s
    /\ firstStatus' = IF firstStatus = 0 THEN s ELSE firstStatus
    /\ IF s = 401
         THEN pc' = "page_refresh" /\ UNCHANGED <<result, found, next_page_token>>
         ELSE SearchConsume(body, n, tokn, flag)
    /\ UNCHANGED <<reconVars, archiveVars, syncVars, tokenVars, payloadVars, raceVars, endpointVars>>
    /\ UNCHANGED <<op, hasCred, secretVer, hdrTok, sends, refreshes, sleeps, stack>>

\* line 392: the forced refresh after a 401 on a page
SearchRefresh(outcome) ==
    /\ op = "search" /\ pc = "page_refresh"
    /\ outcome \in TokenOutcomes(hasCred, TRUE)
    /\ secretVer' = SecretAfter(secretVer, TRUE, outcome)
    /\ IF outcome = "raise"
         THEN Finish("raised") /\ hdrTok' = hdrTok
         ELSE pc' = "page_retry" /\ result' = result /\ hdrTok' = secretVer'
    /\ UNCHANGED <<reconVars, archiveVars, syncVars, tokenVars, payloadVars, raceVars, endpointVars>>
    /\ UNCHANGED <<op, hasCred, sends, refreshes, sleeps, firstStatus, lastStatus,
                   stack, next_page_token, found>>

\* lines 395-396: the page request again, and raise_for_status
SearchRetry(s, body, n, tokn, flag) ==
    /\ op = "search" /\ pc = "page_retry"
    /\ body \in Bodies(s)
    /\ n \in 0..(MaxFound - found)
    /\ tokn \in PageTokens
    /\ flag \in {"true", "false", "missing"}
    /\ lastStatus' = s
    /\ firstStatus' = firstStatus
    /\ IF raise_for_status(s)
         THEN Finish("raised") /\ UNCHANGED <<found, next_page_token>>
         ELSE SearchConsume(body, n, tokn, flag)
    /\ UNCHANGED <<reconVars, archiveVars, syncVars, tokenVars, payloadVars, raceVars, endpointVars>>
    /\ UNCHANGED <<op, hasCred, secretVer, hdrTok, sends, refreshes, sleeps, stack>>

----------------------------------------------------------------------------
(* The client specification: one operation of the client per behaviour *)

ReconIdle ==
    /\ rpc = "idle" /\ entity_name = "testcases" /\ entity_ids = <<>>
    /\ tracker = <<>> /\ jira_issues = <<>> /\ searches = <<>> /\ ridx = 1
    /\ store = <<>> /\ writes = <<>>
    /\ results = <<>> /\ returned = ""

ArchiveIdle ==
    /\ jobs = <<>> /\ task = <<>> /\ poll = <<>>

SyncIdle ==
    /\ version_status = "" /\ requirements = <<>> /\ testcases = <<>>
    /\ run = <<>> /\ one = <<>> /\ events = <<>>

TokenIdle ==
    /\ secret_path_doc = <<>> /\ secret = <<>> /\ issued = 0 /\ tcall = <<>>

PayloadIdle == built = <<>>

RaceIdle == runs = <<>> /\ shared = <<>> /\ created = <<>>

EndpointIdle == cj = <<>> /\ oauth = <<>> /\ gate = <<>>

ClientInit ==
    /\ ClientIdle
    /\ EndpointIdle
    /\ hasCred \in BOOLEAN
    /\ ReconIdle
    /\ ArchiveIdle
    /\ SyncIdle
    /\ TokenIdle
    /\ PayloadIdle
    /\ RaceIdle

ClientNext ==
    \/ \E o \in CreateOps, valid \in BOOLEAN, outcome \in {"none", "token", "raise"} :
           CreateStart(o, valid, outcome)
    \/ \E s \in Statuses : CreatePost(s)
    \/ \E outcome \in {"token", "raise"} : CreateRefresh(outcome)
    \/ \E s \in Statuses : CreateRetry(s)
    \/ \E valid \in BOOLEAN, outcome \in {"none", "token", "raise"} :
           UpdateStart(valid, outcome)
    \/ \E s \in Statuses : UpdatePut(s)
    \/ \E outcome \in {"token", "raise"} : UpdateRecurse(outcome)
    \/ \E outcome \in {"none", "token", "raise"} : SearchStart(outcome)
    \/ \E s \in Statuses, body \in {"page", "error_object", "not_json"},
          n \in 0..MaxFound, tokn \in PageTokens, flag \in {"true", "false", "missing"} :
           SearchPage(s, body, n, tokn, flag)
    \/ \E outcome \in {"token", "raise"} : SearchRefresh(outcome)
    \/ \E s \in Statuses, body \in {"page", "error_object", "not_json"},
          n \in 0..MaxFound, tokn \in PageTokens, flag \in {"true", "false", "missing"} :
           SearchRetry(s, body, n, tokn, flag)

ClientSpec == ClientInit /\ [][ClientNext]_vars

(* The search alone, with the fairness of the thread that runs it: the *)
(* loop of search_issues_by_label keeps taking its next step           *)
SearchNext ==
    \/ \E outcome \in {"none", "token", "raise"} : SearchStart(outcome)
    \/ \E s \in Statuses, body \in {"page", "error_object", "not_json"},
          n \in 0..MaxFound, tokn \in PageTokens, flag \in {"true", "false", "missing"} :
           SearchPage(s, body, n, tokn, flag)
    \/ \E outcome \in {"token", "raise"} : SearchRefresh(outcome)
    \/ \E s \in Statuses, body \in {"page", "error_object", "not_json"},
          n \in 0..MaxFound, tokn \in PageTokens, flag \in {"true", "false", "missing"} :
           SearchRetry(s, body, n, tokn, flag)

SearchFairSpec == ClientInit /\ [][SearchNext]_vars /\ WF_vars(SearchNext)

----------------------------------------------------------------------------
(* Claims about the client *)

CreateDone == op \in CreateOps /\ pc = "done"
UpdateDone == op = "update" /\ pc = "done"

\* every response the update has received so far was a 401: no activation
\* has counted an iteration, and the latest response is a 401
Only401 ==
    /\ lastStatus = 401
    /\ \A i \in 1..Len(stack) : stack[i].attempt = 0

\* C2 as stated: a create whose first POST was answered 401 ends after exactly
\* one forced refresh and exactly one retry (two POSTs in all), and it raises
\* exactly when the retry's status is not a success.
C2_ExactlyOneRetry ==
    (CreateDone /\ firstStatus = 401) =>
        /\ refreshes = 1
        /\ sends = 2
        /\ (result = "raised") <=> raise_for_status(lastStatus)

\* C2 amended: after a 401 on the first POST there is never more than one
\* forced refresh nor more than one retry; the create ends after exactly one
\* forced refresh; when the refresh returned a token the POST was retried
\* exactly once, with the refreshed token, and the create raises exactly when
\* the retry's status is not a success (a second 401 included); when the
\* refresh raised, no retry was sent and the create raises.
C2_OneRefreshThenOneRetry ==
    (op \in CreateOps /\ firstStatus = 401) =>
        /\ refreshes <= 1 /\ sends <= 2
        /\ pc = "done" =>
              /\ refreshes = 1
              /\ secretVer = 1 =>
                    /\ sends = 2 /\ hdrTok = secretVer
                    /\ (result = "raised") <=> raise_for_status(lastStatus)
                    /\ (result = "ok") <=> ~raise_for_status(lastStatus)
              /\ secretVer = 0 => (sends = 1 /\ result = "raised")

\* a create whose retry was answered by a second 401
C2_Witness ==
    /\ CreateDone /\ firstStatus = 401 /\ lastStatus = 401
    /\ sends = 2 /\ refreshes = 1 /\ result = "raised"

\* C3: update_testcase stays within its budget of 5 PUT attempts and 5
\* token refreshes even when every PUT is answered 401.
C3_UpdateWithinBudget ==
    (op = "update" /\ Only401) =>
        (sends <= MaxAttempts /\ refreshes <= MaxAttempts)

\* C4: an update whose first PUT was answered 401 and whose PUT after the
\* refresh was answered 204 returns True after one refresh and one retry.
C4_RetrySuccessReturnsTrue ==
    (UpdateDone /\ firstStatus = 401 /\ lastStatus = 204 /\ sends = 2) =>
        (result = "true" /\ refreshes = 1)

\* C5: in update_testcase a 429 is followed by a sleep and another PUT, so
\* an update ends on a 429 only when that 429 answered its fifth attempt,
\* and then it ends in failure.
C5_RateLimitRetried ==
    (UpdateDone /\ lastStatus = 429) =>
        (sends = MaxAttempts /\ sleeps >= 1 /\ result \in {"false", "raised"})

\* C6: the create operations sleep and retry on a 429, so a create ends on
\* a 429 only after a sleep and only when its budget of 5 attempts is used up.
C6_CreateRateLimitRetried ==
    (CreateDone /\ lastStatus = 429) =>
        (sleeps >= 1 /\ sends = MaxAttempts)

\* C7: search_issues_by_label terminates: once the search is at its page
\* loop it eventually ends, whatever the tracker answers.
C7_SearchTerminates ==
    (op = "search" /\ pc = "page") ~> (pc = "done")

\* C32: an error answer to a search page is propagated: once the latest
\* response of the search is a non-2xx status other than 401, or a 401
\* given to the retry, the search has ended by raising; it is not at its
\* loop about to request another page.
C32_SearchErrorPropagates ==
    (op = "search" /\ raise_for_status(lastStatus)) =>
        \/ pc = "done" /\ result = "raised"
        \/ lastStatus = 401 /\ pc \in {"page_refresh", "page_retry"}

----------------------------------------------------------------------------
(* Reconciliation: sync_entities_on_alm *)

\* largest number of issues the tracker holds
MaxIssues == 2

EntityIds == {"E1", "E2"}
Collections == {"testcases", "requirements"}
ProvenanceLabel == "Created_by_Captain"
Labels == EntityIds \cup {ProvenanceLabel}

\* the sync fields of an entity document and, for its other fields, the
\* title; 0 and <<>> stand for an absent key and an absent link, "" for an
\* absent toolCreated
NoSync == [toolCreated |-> "", toolIssueKey |-> 0, toolIssueLink |-> <<>>,
           title |-> "title"]

\* issue_url = f'{cloud_domain}/browse/{issue_key}'
IssueUrl(domain, key) == <<domain, "/browse/", key>>

\* what an entity may hold from an earlier pass
PriorSync ==
    { NoSync,
      [NoSync EXCEPT !.toolCreated = "FAILED"],
      [NoSync EXCEPT !.toolCreated = "SUCCESS", !.toolIssueKey = 1,
                     !.toolIssueLink = IssueUrl("site", 1)] }

\* the trackers of the model: up to MaxIssues issues, the i-th with key i,
\* each with any set of labels
Trackers ==
    UNION { [1..n -> [key : 1..MaxIssues, labels : SUBSET Labels]] : n \in 0..MaxIssues }

\* the id lists a pass is called with: distinct ids, in any order
IdLists ==
    { ids \in UNION { [1..n -> EntityIds] : n \in 0..Cardinality(EntityIds) } :
        \A i, j \in 1..Len(ids) : i # j => ids[i] # ids[j] }

\* a pass that searches by the provenance label whatever the list
SearchLabel_AlwaysProvenance(ids) == ProvenanceLabel

\* the label the search is made for (lines 123-130): the entity's own id
\* for a single id, the provenance label otherwise
SearchLabel(ids) == IF Len(ids) = 1 THEN ids[1] ELSE ProvenanceLabel

\* the issues the tracker returns for labels = '<label>', normalized to
\* {key, url, labels}, in the tracker's order
SearchIssues(label) ==
    LET hits == SelectSeq(tracker, LAMBDA i : label \in i.labels)
    IN  [k \in 1..Len(hits) |->
            [key |-> hits[k].key, url |-> IssueUrl("site", hits[k].key),
             labels |-> hits[k].labels]]

\* a match that takes the first issue returned, whatever its labels
FirstMatch_AnyIssue(issues, id) == IF issues = <<>> THEN 0 ELSE 1

\* next((issue for issue in jira_issues if id in issue['labels']), None):
\* the index of the first matching issue, 0 for None
FirstMatch(issues, id) ==
    LET hit == { k \in 1..Len(issues) : id \in issues[k].labels }
    IN  IF hit = {} THEN 0 ELSE CHOOSE k \in hit : \A m \in hit : k <= m

\* an update that records the last matching issue instead of the first
SyncUpdate_LastMatch(issues, id) ==
    LET hit == { k \in 1..Len(issues) : id \in issues[k].labels }
        m == IF hit = {} THEN 0 ELSE CHOOSE k \in hit : \A n \in hit : k >= n
    IN  IF m # 0
          THEN [fields |-> {"toolIssueKey", "toolIssueLink", "toolCreated"},
                toolIssueKey |-> issues[m].key, toolIssueLink |-> issues[m].url,
                toolCreated |-> "SUCCESS"]
          ELSE [fields |-> {"toolCreated"},
                toolIssueKey |-> 0, toolIssueLink |-> <<>>,
                toolCreated |-> "FAILED"]

\* the update the pass writes for an id (lines 145-161 / 176-192)
SyncUpdate(issues, id) ==
    LET m == FirstMatch(issues, id)
    IN  IF m # 0
          THEN [fields |-> {"toolIssueKey", "toolIssueLink", "toolCreated"},
                toolIssueKey |-> issues[m].key, toolIssueLink |-> issues[m].url,
                toolCreated |-> "SUCCESS"]
          ELSE [fields |-> {"toolCreated"},
                toolIssueKey |-> 0, toolIssueLink |-> <<>>,
                toolCreated |-> "FAILED"]

\* a write that replaces the document by the update (doc_ref.set)
ApplyUpdate_Replace(doc, u) ==
    [toolCreated   |-> u.toolCreated,
     toolIssueKey  |-> u.toolIssueKey,
     toolIssueLink |-> u.toolIssueLink,
     title         |-> ""]

\* doc_ref.update(update_details): only the fields of the update change
ApplyUpdate(doc, u) ==
    [toolCreated   |-> IF "toolCreated" \in u.fields THEN u.toolCreated ELSE doc.toolCreated,
     toolIssueKey  |-> IF "toolIssueKey" \in u.fields THEN u.toolIssueKey ELSE doc.toolIssueKey,
     toolIssueLink |-> IF "toolIssueLink" \in u.fields THEN u.toolIssueLink ELSE doc.toolIssueLink,
     title         |-> doc.title]

\* the except clause of line 196: the error is logged and the pass returns None
SyncAbort ==
    /\ rpc' = "done" /\ returned' = "None"

\* lines 116-121: entry of the pass, up to the search
SyncStart(ids) ==
    /\ rpc = "idle"
    /\ ids \in IdLists
    /\ entity_ids' = ids
    /\ IF Len(ids) = 0
         THEN rpc' = "done" /\ returned' = "None"
         ELSE rpc' = "search" /\ returned' = returned
    /\ UNCHANGED <<entity_name, tracker, jira_issues, searches, ridx, store, writes,
                   results>>
    /\ UNCHANGED <<clientVars, archiveVars, syncVars, tokenVars, payloadVars, raceVars, endpointVars>>

\* lines 123-130: the label search, which returns the issues or raises
SyncSearch(outcome) ==
    /\ rpc = "search"
    /\ outcome \in {"issues", "raise"}
    /\ searches' = Append(searches, SearchLabel(entity_ids))
    /\ IF outcome = "raise"
         THEN SyncAbort /\ jira_issues' = jira_issues
         ELSE /\ jira_issues' = SearchIssues(SearchLabel(entity_ids))
              /\ rpc' = "loop" /\ returned' = returned
    /\ UNCHANGED <<entity_name, entity_ids, tracker, ridx, store, writes, results>>
    /\ UNCHANGED <<clientVars, archiveVars, syncVars, tokenVars, payloadVars, raceVars, endpointVars>>

\* one iteration of the loop of lines 135-161 / 166-192, and the return
\* after the last one; the store write may raise
SyncReconcile(dbOk) ==
    /\ rpc = "loop"
    /\ LET id == entity_ids[ridx]
           u  == SyncUpdate(jira_issues, id)
       IN  /\ results' = IF u.toolCreated = "SUCCESS"
                           THEN [x \in DOMAIN results \cup {id} |->
                                    IF x = id THEN u.toolIssueKey ELSE results[x]]
                           ELSE results
           /\ IF dbOk
                THEN /\ store' = [store EXCEPT ![entity_name][id] = ApplyUpdate(@, u)]
                     /\ writes' = [writes EXCEPT ![id] = Append(@, u)]
                     /\ ridx' = ridx + 1
                     /\ IF ridx = Len(entity_ids)
                          THEN rpc' = "done" /\ returned' = "results"
                          ELSE rpc' = rpc /\ returned' = returned
                ELSE /\ SyncAbort
                     /\ UNCHANGED <<store, writes, ridx>>
    /\ UNCHANGED <<entity_name, entity_ids, tracker, jira_issues, searches>>
    /\ UNCHANGED <<clientVars, archiveVars, syncVars, tokenVars, payloadVars, raceVars, endpointVars>>

ReconInit ==
    /\ ClientIdle /\ hasCred = TRUE
    /\ EndpointIdle
    /\ ArchiveIdle
    /\ SyncIdle
    /\ TokenIdle
    /\ PayloadIdle
    /\ RaceIdle
    /\ rpc = "idle" /\ entity_ids = <<>> /\ jira_issues = <<>> /\ searches = <<>>
    /\ ridx = 1
    /\ returned = ""
    /\ results = <<>>
    /\ entity_name \in Collections
    /\ tracker \in { tr \in Trackers : \A i \in 1..Len(tr) : tr[i].key = i }
    /\ \E prior \in [EntityIds -> PriorSync] :
          store = [c \in Collections |->
                      IF c = entity_name THEN prior ELSE [e \in EntityIds |-> NoSync]]
    /\ writes = [e \in EntityIds |-> <<>>]

ReconNext ==
    \/ \E ids \in IdLists : SyncStart(ids)
    \/ \E outcome \in {"issues", "raise"} : SyncSearch(outcome)
    \/ \E dbOk \in BOOLEAN : SyncReconcile(dbOk)

ReconSpec == ReconInit /\ [][ReconNext]_vars

(* Claims about the reconciliation *)

\* C1: when a pass over a non-empty id list has ended, every id of the
\* list has been written exactly once by the pass, with toolCreated SUCCESS
\* if some issue of the tracker matching the search carries the id as a
\* label and FAILED otherwise.
C1_CompletePartition ==
    (rpc = "done" /\ Len(entity_ids) > 0) =>
        \A i \in 1..Len(entity_ids) :
            LET id == entity_ids[i]
                labelled == \E k \in 1..Len(tracker) :
                               /\ SearchLabel(entity_ids) \in tracker[k].labels
                               /\ id \in tracker[k].labels
            IN  /\ Len(writes[id]) = 1
                /\ writes[id][1].toolCreated = IF labelled THEN "SUCCESS" ELSE "FAILED"
                /\ store[entity_name][id].toolCreated = writes[id][1].toolCreated

\* C17: every write of toolCreated = SUCCESS a pass makes for an id rests
\* on an issue the search of that pass returned: one of the returned issues
\* carries the id in its labels, and the toolIssueKey and toolIssueLink
\* written (and then stored) with it are the key and the url of that issue.
C17_SuccessHasIssue ==
    \A id \in EntityIds :
        \A w \in 1..Len(writes[id]) :
            writes[id][w].toolCreated = "SUCCESS" =>
                /\ \E k \in 1..Len(jira_issues) :
                      /\ id \in jira_issues[k].labels
                      /\ writes[id][w].toolIssueKey = jira_issues[k].key
                      /\ writes[id][w].toolIssueLink = jira_issues[k].url
                /\ w = Len(writes[id]) =>
                      /\ store[entity_name][id].toolCreated = "SUCCESS"
                      /\ store[entity_name][id].toolIssueKey = writes[id][w].toolIssueKey
                      /\ store[entity_name][id].toolIssueLink = writes[id][w].toolIssueLink

\* a finished pass over two ids that wrote SUCCESS for an id whose issue is
\* the second one the search returned
C17_Witness ==
    /\ rpc = "done" /\ returned = "results" /\ Len(entity_ids) = 2
    /\ Len(jira_issues) = 2
    /\ \E id \in EntityIds :
          /\ Len(writes[id]) = 1
          /\ writes[id][1].toolCreated = "SUCCESS"
          /\ id \notin jira_issues[1].labels
          /\ writes[id][1].toolIssueKey = jira_issues[2].key

\* C29: a pass makes at most one search; a pass over one id that has come
\* to its search has searched by that id, a pass over two or more ids has
\* searched by Created_by_Captain, and every match of the pass is taken
\* from the result of that one search; a pass over no id searches nothing.
C29_OneSearchPerPass ==
    /\ Len(searches) <= 1
    /\ rpc \in {"loop", "done"} =>
          /\ Len(entity_ids) = 0 => searches = <<>>
          /\ Len(entity_ids) = 1 => searches = <<entity_ids[1]>>
          /\ Len(entity_ids) >= 2 => searches = <<"Created_by_Captain">>
    /\ \A id \in EntityIds :
          \A w \in 1..Len(writes[id]) :
              writes[id][w].toolCreated = "SUCCESS" <=>
                  \E k \in 1..Len(jira_issues) : id \in jira_issues[k].labels

\* a finished pass over two ids, both matched in the result of the one
\* search by Created_by_Captain
C29_Witness ==
    /\ rpc = "done" /\ returned = "results" /\ Len(entity_ids) = 2
    /\ searches = <<"Created_by_Captain">>
    /\ \A i \in 1..2 : store[entity_name][entity_ids[i]].toolCreated = "SUCCESS"

\* C30: the issue a pass records for an id is the first issue of the
\* search result that carries the id: no earlier issue of the result
\* carries it, whatever later issues do; nothing keeps two ids from being
\* recorded with the same issue.
C30_FirstMatchRecorded ==
    \A id \in EntityIds :
        \A w \in 1..Len(writes[id]) :
            LET hit == { k \in 1..Len(jira_issues) : id \in jira_issues[k].labels }
            IN  hit # {} =>
                  \E k \in hit :
                      /\ \A m \in hit : k <= m
                      /\ writes[id][w].toolCreated = "SUCCESS"
                      /\ writes[id][w].toolIssueKey = jira_issues[k].key
                      /\ writes[id][w].toolIssueLink = jira_issues[k].url
                      /\ store[entity_name][id].toolIssueKey = jira_issues[k].key

\* a finished pass in which two issues carry both ids and the first of
\* them is recorded for both
C30_Witness ==
    /\ rpc = "done" /\ returned = "results" /\ Len(entity_ids) = 2
    /\ Len(jira_issues) = 2
    /\ \A k \in 1..2 : EntityIds \subseteq jira_issues[k].labels
    /\ \A id \in EntityIds :
          /\ store[entity_name][id].toolIssueKey = jira_issues[1].key
          /\ store[entity_name][id].toolIssueLink = jira_issues[1].url

\* C31: every step of a pass that changes the store changes one document
\* only, that of the id being reconciled in the collection of the pass;
\* when an issue of the search result carries the id, toolIssueKey,
\* toolIssueLink and toolCreated become those of the match and SUCCESS;
\* otherwise toolCreated becomes FAILED and toolIssueKey and
\* toolIssueLink stay what they were; no other field changes.
C31_PartialFieldWrites ==
    [][ store' # store =>
          /\ rpc = "loop"
          /\ \A c \in Collections : \A e \in EntityIds :
                store'[c][e] # store[c][e] => (c = entity_name /\ e = entity_ids[ridx])
          /\ LET id  == entity_ids[ridx]
                 old == store[entity_name][id]
                 new == store'[entity_name][id]
                 hit == \E k \in 1..Len(jira_issues) : id \in jira_issues[k].labels
             IN  /\ new.title = old.title
                 /\ hit => /\ new.toolCreated = "SUCCESS"
                           /\ \E k \in 1..Len(jira_issues) :
                                 /\ id \in jira_issues[k].labels
                                 /\ new.toolIssueKey = jira_issues[k].key
                                 /\ new.toolIssueLink = jira_issues[k].url
                 /\ ~hit => /\ new.toolCreated = "FAILED"
                            /\ new.toolIssueKey = old.toolIssueKey
                            /\ new.toolIssueLink = old.toolIssueLink ]_vars

\* an entity that held SUCCESS with key 1 and found no issue in this pass:
\* it is FAILED now and still holds the key and the link
C31_Witness ==
    \E id \in EntityIds :
        /\ Len(writes[id]) = 1
        /\ writes[id][1].toolCreated = "FAILED"
        /\ store[entity_name][id].toolCreated = "FAILED"
        /\ store[entity_name][id].toolIssueKey = 1
        /\ store[entity_name][id].toolIssueLink = IssueUrl("site", 1)
        /\ store[entity_name][id].title = "title"

----------------------------------------------------------------------------
(* Archive jobs: create_download_job, update_download_job_status, the    *)
(* background zip tasks and the status endpoint.  The tasks of different  *)
(* jobs touch different job documents and change no entity, so a job is   *)
(* followed on its own.                                                   *)

\* largest number of URLs a target resolves to
MaxUrls == 2

\* the job ids handed out by the store
JobIds == {"job1"}
Kinds == {"testcase", "document", "all"}
Terminal == {"completed", "failed"}

\* the URLs found in the store; the last one is not a gs:// URL
Urls == {"gs://b/a.csv", "gs://b/d.csv", "gs://b/b.json", "http://h/c.csv"}

\* url.startswith('gs://')
StartsWithGs(u) == u \in {"gs://b/a.csv", "gs://b/d.csv", "gs://b/b.json"}

\* url.split('.')[-1]
Extension(u) ==
    CASE u = "gs://b/a.csv"   -> "csv"
      [] u = "gs://b/d.csv"   -> "csv"
      [] u = "gs://b/b.json"  -> "json"
      [] u = "http://h/c.csv" -> "csv"

\* the name a job is submitted for: a testcase id, a document name, or "all"
Target(kind) ==
    CASE kind = "testcase" -> "T1"
      [] kind = "document" -> "doc1"
      [] kind = "all"      -> "all"

\* the entities a URL of the target can belong to
Owners(kind) == IF kind = "all" THEN {"T1", "T2"} ELSE {Target(kind)}

\* the URL lists a target can resolve to, each URL with the entity that
\* owns it; the URLs of one entity follow one another
ItemLists(kind) ==
    { l \in UNION { [1..n -> [owner : Owners(kind), url : Urls]] : n \in 0..MaxUrls } :
        \A i, j, k \in 1..Len(l) :
            (i < j /\ j < k /\ l[i].owner = l[k].owner) => l[j].owner = l[i].owner }

\* zip_name: f'{testcase_id}-{version}-{project_id}', f'{doc_name}-...',
\* or f'{version}-{project_id}' for all testcases
zip_name(kind) == IF kind = "all" THEN <<"v1", "p1">> ELSE <<Target(kind), "v1", "p1">>

\* an entry name that tells the URLs of one entity apart
EntryName_PerUrl(kind, item) ==
    IF kind = "all"
      THEN <<item.owner>> \o zip_name(kind) \o <<item.url, Extension(item.url)>>
      ELSE zip_name(kind) \o <<item.url, Extension(item.url)>>

\* the name of the archive entry written for an item
EntryName(kind, item) ==
    IF kind = "all"
      THEN <<item.owner>> \o zip_name(kind) \o <<Extension(item.url)>>
      ELSE zip_name(kind) \o <<Extension(item.url)>>

\* upload_file_to_gcs: f'gs://{BUCKET_NAME}/jobs/{job_id}/archive.zip'
ZipUrl(j) == <<"gs://bucket/jobs", j, "archive.zip">>

AbsentJob == [status |-> "absent", result_url |-> <<>>, file_name |-> <<>>, error |-> ""]

NoTask == [pc |-> "none", kind |-> "testcase", resolved |-> FALSE, items |-> <<>>,
           idx |-> 1, entries |-> <<>>, fetches |-> <<>>, uploads |-> 0,
           log |-> <<>>, cause |-> ""]

\* an update that stores the status and drops the other fields
update_download_job_status_StatusOnly(doc, status, fileName, resultUrl, error) ==
    [doc EXCEPT !.status = status]

\* update_download_job_status: the status always, the other fields when
\* they are given (<<>> and "" are the values not given)
update_download_job_status(doc, status, fileName, resultUrl, error) ==
    [status     |-> status,
     result_url |-> IF resultUrl # <<>> THEN resultUrl ELSE doc.result_url,
     file_name  |-> IF fileName # <<>> THEN fileName ELSE doc.file_name,
     error      |-> IF error # "" THEN error ELSE doc.error]

\* a task that falls through a missing return after its up-front failure
AfterNoFiles_FallThrough == "upload"

\* where a task goes after it has written failed for a target without
\* files: the return of lines 486, 495 and 545
AfterNoFiles == "done"

\* a task whose per-file failures escape to the outer handler
AfterFetchFailure_Escapes == "handler"

\* where a task goes when get_file_from_gcs raises for a URL: the inner
\* except of lines 511, 562 and 611 logs it and the loop goes on
AfterFetchFailure == "zip"

\* a task whose upload failure is not caught by its outer handler
AfterUploadFailure_Unhandled == "escaped"

\* where a task goes when upload_file_to_gcs raises: the outer except of
\* lines 526, 576 and 624
AfterUploadFailure == "handler"

\* no task is between its first and its last step
NoneRunning ==
    \A k \in JobIds : task[k].pc \in {"none", "scheduled", "done", "crashed"}

\* a store write of the task of job j: it is applied and logged, or it
\* raises and control passes to `onRaise`
TaskWrite(j, ok, status, fileName, resultUrl, error, onOk, onRaise) ==
    IF ok
      THEN /\ jobs' = [jobs EXCEPT ![j] =
                          update_download_job_status(@, status, fileName, resultUrl, error)]
           /\ task' = [task EXCEPT ![j].pc = onOk, ![j].log = Append(@, status)]
      ELSE /\ jobs' = jobs
           /\ task' = [task EXCEPT ![j].pc = onRaise, ![j].cause = "store"]

\* an endpoint that hands the task over without a stored job document
CreatedStatus_NotPersisted == "absent"

\* create_download_job and create_download_all_job: the status the new
\* job document is set with
CreatedStatus == "pending"

\* the download endpoints: the job document is created pending, the task
\* is handed to the background tasks and the job id is returned; the task
\* starts after the response
Submit(j, kind) ==
    /\ jobs[j].status = "absent"
    /\ task[j].pc = "none"
    /\ jobs' = [jobs EXCEPT ![j].status = CreatedStatus]
    /\ task' = [task EXCEPT ![j] = [NoTask EXCEPT !.pc = "scheduled", !.kind = kind]]
    /\ UNCHANGED <<poll, clientVars, reconVars, syncVars, tokenVars, payloadVars, raceVars, endpointVars>>

\* first statement of every task: the status becomes in_progress
TaskBegin(j, ok) ==
    /\ task[j].pc = "scheduled"
    /\ NoneRunning
    /\ TaskWrite(j, ok, "in_progress", <<>>, <<>>, "", "read", "handler")
    /\ UNCHANGED <<poll, clientVars, reconVars, syncVars, tokenVars, payloadVars, raceVars, endpointVars>>

\* the read of the testcase, of the version or of all testcases, and the
\* list of URLs made of it
TaskResolve(j, outcome) ==
    /\ task[j].pc = "read"
    /\ \/ /\ outcome = "raise"
          /\ task' = [task EXCEPT ![j].pc = "handler", ![j].cause = "read"]
       \/ /\ outcome \in {"no_datasets", "no_documents", "no_such_document"}
          /\ task[j].kind = "testcase" <=> outcome = "no_datasets"
          /\ task[j].kind # "all"
          /\ task' = [task EXCEPT ![j].pc = outcome, ![j].resolved = TRUE]
       \/ /\ outcome = "urls"
          /\ \E items \in ItemLists(task[j].kind) :
                /\ task[j].kind # "all" => items # <<>>
                /\ task' = [task EXCEPT
                                ![j].pc = IF items = <<>> THEN "upload" ELSE "zip",
                                ![j].resolved = TRUE, ![j].items = items]
    /\ UNCHANGED <<jobs, poll, clientVars, reconVars, syncVars, tokenVars,
                   payloadVars, raceVars, endpointVars>>

\* the up-front failure: failed is written with its message
TaskNoFiles(j, ok) ==
    /\ task[j].pc \in {"no_datasets", "no_documents", "no_such_document"}
    /\ TaskWrite(j, ok, "failed", <<>>, <<>>,
                 CASE task[j].pc = "no_datasets" -> "No datasets found"
                   [] task[j].pc = "no_documents" -> "No documents found"
                   [] OTHER -> "Specified document found",
                 AfterNoFiles, "handler")
    /\ UNCHANGED <<poll, clientVars, reconVars, syncVars, tokenVars, payloadVars, raceVars, endpointVars>>

\* one iteration of the loop over the URLs
TaskFetch(j, ok) ==
    /\ task[j].pc = "zip"
    /\ LET item == task[j].items[task[j].idx]
           last == task[j].idx = Len(task[j].items)
           next == IF last THEN "upload" ELSE "zip"
       IN  IF ~StartsWithGs(item.url)
             THEN task' = [task EXCEPT ![j].idx = @ + 1, ![j].pc = next]
             ELSE IF ok
                    THEN task' = [task EXCEPT
                            ![j].idx = @ + 1, ![j].pc = next,
                            ![j].fetches = Append(@, [item |-> item, ok |-> TRUE]),
                            ![j].entries = Append(@, [name |-> EntryName(task[j].kind, item),
                                                      url |-> item.url])]
                    ELSE task' = [task EXCEPT
                            ![j].idx = @ + 1,
                            ![j].pc = IF AfterFetchFailure = "zip" THEN next
                                      ELSE AfterFetchFailure,
                            ![j].fetches = Append(@, [item |-> item, ok |-> FALSE])]
    /\ UNCHANGED <<jobs, poll, clientVars, reconVars, syncVars, tokenVars,
                   payloadVars, raceVars, endpointVars>>

\* a statement of the with-block outside the inner try raises (startswith
\* on a dataset entry that is not a string, the close of the ZipFile)
TaskBuildRaises(j) ==
    /\ task[j].pc = "zip"
    /\ task' = [task EXCEPT ![j].pc = "handler", ![j].cause = "build"]
    /\ UNCHANGED <<jobs, poll, clientVars, reconVars, syncVars, tokenVars,
                   payloadVars, raceVars, endpointVars>>

\* upload_file_to_gcs(zip_buffer, 'application/zip', upload_path)
TaskUpload(j, ok) ==
    /\ task[j].pc = "upload"
    /\ IF ok
         THEN task' = [task EXCEPT ![j].pc = "complete", ![j].uploads = @ + 1]
         ELSE task' = [task EXCEPT ![j].pc = AfterUploadFailure, ![j].cause = "upload"]
    /\ UNCHANGED <<jobs, poll, clientVars, reconVars, syncVars, tokenVars,
                   payloadVars, raceVars, endpointVars>>

\* the last statement of the try block: completed, file_name, result_url
TaskComplete(j, ok) ==
    /\ task[j].pc = "complete"
    /\ TaskWrite(j, ok, "completed", zip_name(task[j].kind) \o <<"zip">>, ZipUrl(j), "",
                 "done", "handler")
    /\ UNCHANGED <<poll, clientVars, reconVars, syncVars, tokenVars, payloadVars, raceVars, endpointVars>>

\* the outer except: failed is written with the message of the exception;
\* when that write raises too the task ends with the exception
TaskHandler(j, ok) ==
    /\ task[j].pc = "handler"
    /\ TaskWrite(j, ok, "failed", <<>>, <<>>, "exception", "done", "crashed")
    /\ UNCHANGED <<poll, clientVars, reconVars, syncVars, tokenVars, payloadVars, raceVars, endpointVars>>

\* the answers of get_download_job_status: the HTTP status, the detail of
\* an HTTPException, and the body fields of a 200 answer
NoAnswer == [code |-> 0, detail |-> "", status |-> "", error |-> "",
             url |-> <<>>, file_name |-> <<>>]

NoPoll == [job |-> "", known |-> FALSE, seen |-> AbsentJob, log |-> <<>>,
           fetch |-> "", after |-> AbsentJob, answer |-> NoAnswer]

\* a poll that answers every existing job with its status
get_download_job_status_StatusAlways(doc, fetched) ==
    IF doc.status = "absent"
      THEN [NoAnswer EXCEPT !.code = 404, !.detail = "Job not found."]
      ELSE [NoAnswer EXCEPT !.code = 200, !.status = doc.status]

\* get_download_job_status for a given job id: `doc` is the document read
\* by db.get_download_job ("absent": None), `fetched` tells whether
\* get_file_from_gcs(zip_url) returned
get_download_job_status(doc, fetched) ==
    CASE doc.status = "absent" ->
            [NoAnswer EXCEPT !.code = 404, !.detail = "Job not found."]
      [] doc.status = "completed" ->
            IF doc.result_url = <<>>
              THEN [NoAnswer EXCEPT !.code = 500,
                        !.detail = "Job completed but no download URL found."]
              ELSE IF fetched
                     THEN [NoAnswer EXCEPT !.code = 200, !.url = doc.result_url,
                                           !.file_name = doc.file_name]
                     ELSE [NoAnswer EXCEPT !.code = 500,
                               !.detail = "Failed to retrieve zipped file."]
      [] doc.status = "failed" ->
            [NoAnswer EXCEPT !.code = 500, !.detail = "Job failed",
                  !.error = IF doc.error = "" THEN "An unknown error occurred."
                            ELSE doc.error]
      [] OTHER -> [NoAnswer EXCEPT !.code = 200, !.status = doc.status]

\* a call of the status endpoint for job id j, at any moment; the job id
\* is known to a client once a submit has returned it.  get_file_from_gcs
\* is called for a completed job with a result_url only.
Poll(j, fetched) ==
    /\ fetched \/ (jobs[j].status = "completed" /\ jobs[j].result_url # <<>>)
    /\ UNCHANGED <<jobs, task, clientVars, reconVars, syncVars, tokenVars,
                   payloadVars, raceVars, endpointVars>>
    /\ poll' = [job    |-> j,
                known  |-> task[j].pc # "none",
                seen   |-> jobs[j],
                log    |-> task[j].log,
                fetch  |-> IF jobs[j].status = "completed" /\ jobs[j].result_url # <<>>
                             THEN IF fetched THEN "returned" ELSE "raised"
                             ELSE "",
                after  |-> jobs'[j],
                answer |-> get_download_job_status(jobs[j], fetched)]

ArchiveInit ==
    /\ ClientIdle /\ hasCred = TRUE
    /\ EndpointIdle
    /\ ReconIdle
    /\ SyncIdle
    /\ TokenIdle
    /\ PayloadIdle
    /\ RaceIdle
    /\ jobs = [j \in JobIds |-> AbsentJob]
    /\ task = [j \in JobIds |-> NoTask]
    /\ poll = NoPoll

ArchiveNext ==
    \/ \E j \in JobIds, kind \in Kinds : Submit(j, kind)
    \/ \E j \in JobIds, ok \in BOOLEAN : TaskBegin(j, ok)
    \/ \E j \in JobIds,
          outcome \in {"raise", "no_datasets", "no_documents", "no_such_document", "urls"} :
           TaskResolve(j, outcome)
    \/ \E j \in JobIds, ok \in BOOLEAN : TaskNoFiles(j, ok)
    \/ \E j \in JobIds, ok \in BOOLEAN : TaskFetch(j, ok)
    \/ \E j \in JobIds : TaskBuildRaises(j)
    \/ \E j \in JobIds, ok \in BOOLEAN : TaskUpload(j, ok)
    \/ \E j \in JobIds, ok \in BOOLEAN : TaskComplete(j, ok)
    \/ \E j \in JobIds, ok \in BOOLEAN : TaskHandler(j, ok)
    \/ \E j \in JobIds, fetched \in BOOLEAN : Poll(j, fetched)

ArchiveSpec == ArchiveInit /\ [][ArchiveNext]_vars

(* Claims about the archive jobs *)

\* C8: the statuses the engine writes for a job follow pending ->
\* in_progress -> completed | failed: the stored status is the last one
\* written (pending before any write), a terminal status is the last write
\* of the job (so nothing is written after it and an execution writes at
\* most one), in_progress is only ever the first write, and completed is
\* written only after in_progress.
C8_JobLifecycle ==
    \A j \in JobIds :
        LET log == task[j].log
        IN  /\ task[j].pc # "none" =>
                  jobs[j].status = IF log = <<>> THEN "pending" ELSE log[Len(log)]
            /\ \A i \in 1..Len(log) :
                  /\ log[i] \in Terminal => i = Len(log)
                  /\ log[i] = "in_progress" => i = 1
                  /\ log[i] = "completed" => \E k \in 1..(i - 1) : log[k] = "in_progress"

\* a job that ended failed because the write of completed raised
C8_Witness ==
    \E j \in JobIds :
        /\ task[j].pc = "done" /\ task[j].uploads = 1
        /\ task[j].log = <<"in_progress", "failed">>
        /\ jobs[j].status = "failed"

\* C9: a task of any kind whose target resolved to no file at all ends
\* with the job failed, an error stored, and no upload made.
C9_NoFilesFails ==
    \A j \in JobIds :
        (task[j].pc = "done" /\ task[j].resolved /\ task[j].items = <<>>) =>
            /\ jobs[j].status = "failed"
            /\ jobs[j].error # ""
            /\ task[j].uploads = 0

\* C10: when a task has run to its end over a non-empty URL list and no
\* call other than a fetch has raised, every gs:// URL of the list was
\* fetched once and in order, the archive holds exactly the entries of the
\* URLs whose fetch returned, in order, one upload was made, and the job
\* is completed.
C10_FetchFailureSkips ==
    \A j \in JobIds :
        (task[j].pc = "done" /\ task[j].items # <<>> /\ task[j].cause = "") =>
            LET gs == SelectSeq(task[j].items, LAMBDA it : StartsWithGs(it.url))
                got == SelectSeq(task[j].fetches, LAMBDA f : f.ok)
            IN  /\ Len(task[j].fetches) = Len(gs)
                /\ \A k \in 1..Len(gs) : task[j].fetches[k].item = gs[k]
                /\ task[j].entries =
                      [k \in 1..Len(got) |->
                          [name |-> EntryName(task[j].kind, got[k].item),
                           url |-> got[k].item.url]]
                /\ task[j].uploads = 1
                /\ jobs[j].status = "completed"
                /\ jobs[j].result_url = ZipUrl(j)

\* a finished job over two URLs of which the first fetch raised and the
\* second returned
C10_Witness ==
    \E j \in JobIds :
        /\ task[j].pc = "done" /\ task[j].cause = ""
        /\ Len(task[j].fetches) = 2
        /\ ~task[j].fetches[1].ok /\ task[j].fetches[2].ok
        /\ Len(task[j].entries) = 1
        /\ jobs[j].status = "completed"

\* the task of job j is at none of its steps any more
TaskEnded(j) ==
    task[j].pc \notin {"none", "scheduled", "read", "no_datasets", "no_documents",
                       "no_such_document", "zip", "upload", "complete", "handler"}

C34_TestcaseEntryNames ==
    \A j \in JobIds :
        task[j].kind = "testcase" =>
            /\ \A n \in 1..Len(task[j].entries) :
                  task[j].entries[n].name =
                      <<"T1", "v1", "p1", Extension(task[j].entries[n].url)>>
            /\ \A n, m \in 1..Len(task[j].entries) :
                  Extension(task[j].entries[n].url) = Extension(task[j].entries[m].url)
                      => task[j].entries[n].name = task[j].entries[m].name
            /\ jobs[j].status = "completed" =>
                  jobs[j].file_name = <<"T1", "v1", "p1", "zip">>

\* a completed testcase job whose two datasets, both .csv, were fetched and
\* written under one name
C34_Witness ==
    \E j \in JobIds :
        /\ task[j].kind = "testcase" /\ jobs[j].status = "completed"
        /\ jobs[j].file_name = <<"T1", "v1", "p1", "zip">>
        /\ Len(task[j].entries) = 2
        /\ task[j].entries[1].url = "gs://b/a.csv"
        /\ task[j].entries[2].url = "gs://b/d.csv"
        /\ task[j].entries[1].name = task[j].entries[2].name
        /\ task[j].entries[1].name = <<"T1", "v1", "p1", "csv">>

\* C21: once a submit endpoint has returned a job id the job document
\* exists, and it is pending with nothing written by the task at the moment
\* the task is handed over; a poll for a returned job id is never answered
\* 'Job not found', and it is answered {status: pending} or {status:
\* in_progress} as long as the task has written no terminal status.
C21_PollAfterSubmit ==
    \A j \in JobIds :
        /\ task[j].pc # "none" => jobs[j].status # "absent"
        /\ task[j].pc = "scheduled" =>
                (jobs[j].status = "pending" /\ task[j].log = <<>>)
        /\ (poll.job = j /\ poll.known) =>
                /\ poll.answer.detail # "Job not found."
                /\ (\A i \in 1..Len(poll.log) : poll.log[i] \notin Terminal) =>
                        /\ poll.answer.code = 200
                        /\ poll.answer.status \in {"pending", "in_progress"}
                        /\ poll.answer.status = poll.seen.status

\* a poll answered in_progress while the task is still fetching
C21_Witness ==
    \E j \in JobIds :
        /\ poll.job = j /\ poll.known
        /\ poll.answer.code = 200 /\ poll.answer.status = "in_progress"
        /\ task[j].pc = "zip"

\* C22 as stated: the answer of a poll is determined by the job document
\* it read: {status} exactly for pending and in_progress, the archive of
\* result_url for completed, a server error with the stored error for
\* failed, not-found for no document; the document is left as it was.
C22_PollFunctionOfRecord ==
    poll.job # "" =>
        LET d == poll.seen
            a == poll.answer
        IN  /\ (a.code = 200 /\ a.status # "") <=> d.status \in {"pending", "in_progress"}
            /\ a.status # "" => a.status = d.status
            /\ d.status = "completed" =>
                    (a.code = 200 /\ a.url = d.result_url /\ a.file_name = d.file_name)
            /\ d.status = "failed" => (a.code = 500 /\ a.error = d.error)
            /\ d.status = "absent" => a.code = 404
            /\ poll.after = d

\* C22, amended: the answer of a poll is determined by the job document it
\* read and, for a completed job, by the outcome of the fetch of the
\* archive: {status} exactly for pending and in_progress, the archive of
\* result_url under the stored file name when the fetch returns, the
\* server error 'Failed to retrieve zipped file.' when the fetch raises, a
\* server error with the stored error for failed, not-found for no
\* document; the document is left as it was.
C22_PollAnswers ==
    poll.job # "" =>
        LET d == poll.seen
            a == poll.answer
        IN  /\ (a.code = 200 /\ a.status # "") <=> d.status \in {"pending", "in_progress"}
            /\ a.status # "" => a.status = d.status
            /\ (d.status = "completed" /\ poll.fetch = "returned") =>
                    (a.code = 200 /\ a.url = d.result_url /\ a.file_name = d.file_name)
            /\ (d.status = "completed" /\ poll.fetch = "raised") =>
                    (a.code = 500 /\ a.detail = "Failed to retrieve zipped file.")
            /\ d.status = "completed" => poll.fetch # ""
            /\ d.status = "failed" =>
                    (a.code = 500 /\ a.detail = "Job failed" /\ a.error = d.error)
            /\ d.status = "absent" => (a.code = 404 /\ a.detail = "Job not found.")
            /\ poll.after = d

\* a poll of a completed job whose archive could not be fetched
C22_Witness ==
    /\ poll.job # "" /\ poll.seen.status = "completed"
    /\ poll.fetch = "raised" /\ poll.answer.code = 500
    /\ jobs[poll.job] = poll.seen

\* C23: a job document with status completed holds a result_url and a
\* file_name, a job document with status failed holds neither, and no
\* poll is answered 'Job completed but no download URL found.'.
C23_CompletedHasUrl ==
    /\ \A j \in JobIds :
          /\ jobs[j].status = "completed" =>
                (jobs[j].result_url # <<>> /\ jobs[j].file_name # <<>>)
          /\ jobs[j].status = "failed" =>
                (jobs[j].result_url = <<>> /\ jobs[j].file_name = <<>>)
    /\ poll.answer.detail # "Job completed but no download URL found."

\* a poll that returned the archive of a completed job
C23_Witness ==
    \E j \in JobIds :
        /\ jobs[j].status = "completed"
        /\ poll.job = j /\ poll.answer.code = 200
        /\ poll.answer.url = ZipUrl(j)
        /\ poll.answer.file_name = zip_name(task[j].kind) \o <<"zip">>

----------------------------------------------------------------------------
(* Issue creation on the tracker: background_issue_creation_on_alm and the *)
(* single-entity operations create_one_testcase_on_alm and                 *)
(* create_one_requirement_on_alm.  The tracker and the store are the       *)
(* environment: each call to them returns or raises.                       *)

\* largest number of requirement documents of the version
MaxReqs == 3
\* largest number of testcase documents of the version
MaxTcs == 2
\* batch_size of the run, scaled down (40 at utilities.py:263); the
\* slicing below is the code's for any size
batch_size == 2

ReqId(i) == <<"R", i>>
TcId(i) == <<"T", i>>

\* the key of the issue a requirement was reconciled with in an earlier
\* run, and the key of the issue matched for it in this run; <<>> is None
StoredKey(id) == <<"KEY", id, "earlier">>
MatchKey(id) == <<"KEY", id>>

\* the selection-relevant fields a requirement document can hold
ReqProfiles ==
    { [change_analysis_status |-> "NEW", toolCreated |-> ""],
      [change_analysis_status |-> "NEW", toolCreated |-> "SUCCESS"] }

\* the selection-relevant fields a testcase document can hold
TcProfiles ==
    { [change_analysis_status |-> "NEW", toolCreated |-> "", deleted |-> FALSE],
      [change_analysis_status |-> "NEW", toolCreated |-> "SUCCESS", deleted |-> FALSE],
      [change_analysis_status |-> "NEW", toolCreated |-> "", deleted |-> TRUE],
      [change_analysis_status |-> "DEPRECATED", toolCreated |-> "", deleted |-> FALSE],
      [change_analysis_status |-> "DEPRECATED", toolCreated |-> "SUCCESS", deleted |-> TRUE] }

\* db.get_requirements(project_id, version): the documents of the collection
RequirementLists ==
    { [i \in DOMAIN f |-> [requirement_id |-> ReqId(i),
                            change_analysis_status |-> f[i].change_analysis_status,
                            toolCreated |-> f[i].toolCreated,
                            toolIssueKey |-> IF f[i].toolCreated = "SUCCESS"
                                               THEN StoredKey(ReqId(i)) ELSE <<>>]] :
        f \in UNION { [1..n -> ReqProfiles] : n \in 0..MaxReqs } }

\* db.get_testcases(project_id, version): every testcase names its requirement
TestcaseLists ==
    { [i \in DOMAIN f |-> [testcase_id |-> TcId(i),
                            requirement_id |-> ReqId(1),
                            change_analysis_status |-> f[i].change_analysis_status,
                            toolCreated |-> f[i].toolCreated,
                            deleted |-> f[i].deleted]] :
        f \in UNION { [1..n -> TcProfiles] : n \in 0..MaxTcs } }

\* a selection that ignores toolCreated
IsNewEntity_IgnoresToolCreated(doc) == doc.change_analysis_status = "NEW"

\* the filter of lines 256-261 and 296-301
IsNewEntity(doc) ==
    doc.change_analysis_status = "NEW" /\ doc.toolCreated # "SUCCESS"

\* a filter that keeps the deleted testcases
IsDeprecated_KeepsDeleted(doc) ==
    doc.change_analysis_status = "DEPRECATED"

\* the filter of lines 330-335
IsDeprecated(doc) ==
    ~doc.deleted /\ doc.change_analysis_status = "DEPRECATED"

\* the ids of a list of documents
RequirementIds(docs) == [i \in 1..Len(docs) |-> docs[i].requirement_id]
TestcaseIds(docs) == [i \in 1..Len(docs) |-> docs[i].testcase_id]

\* new_requirements[i : i + batch_size], as the ids of its documents
Batch(new, i) ==
    SubSeq(new, i + 1, IF i + batch_size < Len(new) THEN i + batch_size ELSE Len(new))

\* req_keys = {}
EmptyKeys == [isNone |-> FALSE, ids |-> {}]

\* db.get_requirement_details(project_id, version_id, requirement_id): the
\* stored requirement document of that id, <<>> (None) when there is none
get_requirement_details(docs, id) ==
    LET hits == SelectSeq(docs, LAMBDA r : r.requirement_id = id)
    IN  IF hits = <<>> THEN <<>> ELSE hits[1]

\* a lookup that knows the requirements of the last batch only
get_req_issue_key_MapOnly(req_keys, docs, testcase) ==
    IF testcase.requirement_id \in req_keys.ids
      THEN MatchKey(testcase.requirement_id)
      ELSE <<>>

\* get_req_issue_key(project_id, version, req_keys, testcase): the key of
\* req_keys when the requirement is in it (results[id] = match['key'] of
\* the reconciliation), otherwise the toolIssueKey of the stored document
get_req_issue_key(req_keys, docs, testcase) ==
    IF testcase.requirement_id \in req_keys.ids
      THEN MatchKey(testcase.requirement_id)
      ELSE LET req_details == get_requirement_details(docs, testcase.requirement_id)
           IN  IF req_details = <<>> THEN <<>> ELSE req_details.toolIssueKey

NoRun == [pc |-> "none", kind |-> "requirements", new |-> <<>>, dep |-> <<>>,
          i |-> 0, k |-> 1, d |-> 1, results |-> {}, req_keys |-> EmptyKeys,
          parents |-> <<>>, cause |-> "", rerun |-> FALSE]

NoOne == [pc |-> "none", kind |-> "testcases", result |-> "",
          created |-> FALSE, written |-> FALSE]

\* a store write or a tracker call, as it is recorded in `events`
Event(e, kind, ids, v) == [e |-> e, kind |-> kind, ids |-> ids, v |-> v]

\* the status each status write of the run stores, by its position
StatusAt(p) ==
    CASE p = "start"               -> "START_ALM_ISSUE_CREATION"
      [] p = "status_requirements" -> "CREATE_ALM_NEW_REQUIREMENTS"
      [] p = "status_testcases"    -> "CREATE_ALM_NEW_TESTCASES"
      [] p = "status_deprecated"   -> "UPDATE_ALM_DEP_ISSUES"
      [] p = "status_complete"     -> "COMPLETE_ALM_ISSUE_CREATION"

\* what follows each status write
AfterStatus(p) ==
    CASE p = "start"               -> "details"
      [] p = "status_requirements" -> "read_requirements"
      [] p = "status_testcases"    -> "read_testcases"
      [] p = "status_deprecated"   -> IF run.dep = <<>> THEN "status_complete" ELSE "update"
      [] p = "status_complete"     -> "done"

\* what follows the batch loop of a kind
AfterLoop(kind) ==
    IF kind = "requirements" THEN "status_testcases" ELSE "status_deprecated"

\* a batch loop that leaves after its first batch
BatchPc_FirstOnly(new, i, kind) ==
    IF i = 0 /\ Len(new) > 0 THEN "payloads" ELSE AfterLoop(kind)

\* for i in range(0, len(new), batch_size): the next batch, or the end
BatchPc(new, i, kind) ==
    IF i < Len(new) THEN "payloads" ELSE AfterLoop(kind)

\* a run that returns silently when the project details are missing
AfterDetailsMissing_Silent == "done"

\* the raise of lines 238-243, caught by the outer except
AfterDetailsMissing == "handler"

\* a run that writes the entities right after the create call
AfterCreate_NoSearch == "write"

\* after create_bulk_issues / create_issue has returned:
\* sync_entities_on_alm begins with its search
AfterCreate == "search"

\* db.update_requirement / db.update_testcase with {'toolCreated': v, ...}
WriteToolCreated(kind, id, v) ==
    IF kind = "requirements"
      THEN /\ requirements' = [i \in 1..Len(requirements) |->
                                 IF requirements[i].requirement_id = id
                                   THEN [requirements[i] EXCEPT
                                           !.toolCreated = v,
                                           !.toolIssueKey = IF v = "SUCCESS"
                                                              THEN MatchKey(id) ELSE @]
                                   ELSE requirements[i]]
           /\ UNCHANGED testcases
      ELSE /\ testcases' = [i \in 1..Len(testcases) |->
                              IF testcases[i].testcase_id = id
                                THEN [testcases[i] EXCEPT !.toolCreated = v]
                                ELSE testcases[i]]
           /\ UNCHANGED requirements

\* the end of a batch: sync_entities_on_alm has returned `ret` (its results,
\* or None when it swallowed an exception), or the inner except has caught
\* the failure of the bulk create and req_keys is left as it was
EndBatch(ret) ==
    LET i2 == run.i + batch_size
    IN  run' = [run EXCEPT
                  !.req_keys = IF run.kind = "requirements" THEN ret ELSE @,
                  !.i = i2, !.k = 1, !.results = {},
                  !.pc = BatchPc(run.new, i2, run.kind)]

(* background_issue_creation_on_alm *)

\* db.update_version(project_id, version, {'status': ...}) at lines 221,
\* 248, 288, 337 and 352
RunWriteStatus(ok) ==
    /\ run.pc \in {"start", "status_requirements", "status_testcases",
                   "status_deprecated", "status_complete"}
    /\ IF ok
         THEN /\ version_status' = StatusAt(run.pc)
              /\ events' = Append(events, Event("status", "", <<>>, StatusAt(run.pc)))
              /\ run' = [run EXCEPT !.pc = AfterStatus(run.pc)]
         ELSE /\ run' = [run EXCEPT !.pc = "handler", !.cause = "status"]
              /\ UNCHANGED <<version_status, events>>
    /\ UNCHANGED <<requirements, testcases, one>>
    /\ UNCHANGED <<clientVars, reconVars, archiveVars, tokenVars, payloadVars, raceVars, endpointVars>>

\* db.get_project_details and the check of the three connection fields
RunDetails(outcome) ==
    /\ run.pc = "details"
    /\ run' = CASE outcome = "found"   -> [run EXCEPT !.pc = "status_requirements"]
                [] outcome = "missing" -> [run EXCEPT !.pc = AfterDetailsMissing,
                                                      !.cause = "details"]
                [] outcome = "raise"   -> [run EXCEPT !.pc = "handler", !.cause = "read"]
    /\ UNCHANGED <<version_status, requirements, testcases, one, events>>
    /\ UNCHANGED <<clientVars, reconVars, archiveVars, tokenVars, payloadVars, raceVars, endpointVars>>

\* db.get_requirements, the selection of the new ones, req_keys = {}
RunReadRequirements(ok) ==
    /\ run.pc = "read_requirements"
    /\ IF ok
         THEN LET new == RequirementIds(SelectSeq(requirements, IsNewEntity))
              IN  /\ run' = [run EXCEPT !.kind = "requirements", !.new = new, !.i = 0,
                                        !.req_keys = EmptyKeys,
                                        !.pc = BatchPc(new, 0, "requirements")]
                  /\ events' = Append(events, Event("select", "requirements", new, ""))
         ELSE /\ run' = [run EXCEPT !.pc = "handler", !.cause = "read"]
              /\ UNCHANGED events
    /\ UNCHANGED <<version_status, requirements, testcases, one>>
    /\ UNCHANGED <<clientVars, reconVars, archiveVars, tokenVars, payloadVars, raceVars, endpointVars>>

\* db.get_testcases and the selection of the new ones; the deprecated ones
\* are taken later from the same list
RunReadTestcases(ok) ==
    /\ run.pc = "read_testcases"
    /\ IF ok
         THEN LET new == TestcaseIds(SelectSeq(testcases, IsNewEntity))
                  dep == TestcaseIds(SelectSeq(testcases, IsDeprecated))
              IN  /\ run' = [run EXCEPT !.kind = "testcases", !.new = new, !.i = 0,
                                        !.dep = dep, !.d = 1,
                                        !.pc = BatchPc(new, 0, "testcases")]
                  /\ events' = Append(events, Event("select", "testcases", new, ""))
         ELSE /\ run' = [run EXCEPT !.pc = "handler", !.cause = "read"]
              /\ UNCHANGED events
    /\ UNCHANGED <<version_status, requirements, testcases, one>>
    /\ UNCHANGED <<clientVars, reconVars, archiveVars, tokenVars, payloadVars, raceVars, endpointVars>>

\* the payloads of a batch.  A requirement payload needs no call.  A
\* testcase payload calls get_req_issue_key, whose `req_id in req_keys`
\* raises TypeError when req_keys is None, and which reads the stored
\* requirement (a read that returns or raises) when the requirement is not
\* in req_keys; the list is built outside the inner try, so an exception
\* goes to the outer except
RunPayloads(readOk) ==
    /\ run.pc = "payloads"
    /\ readOk \/ (run.kind = "testcases" /\ ~run.req_keys.isNone
                    /\ ReqId(1) \notin run.req_keys.ids)
    /\ IF run.kind = "testcases" /\ (run.req_keys.isNone \/ ~readOk)
         THEN run' = [run EXCEPT !.pc = "handler", !.cause = "payloads"]
         ELSE IF run.kind = "requirements"
                THEN run' = [run EXCEPT !.pc = "bulk"]
                ELSE LET ids == Batch(run.new, run.i)
                         tc(n) == SelectSeq(testcases,
                                            LAMBDA t : t.testcase_id = ids[n])[1]
                     IN  run' = [run EXCEPT
                            !.pc = "bulk",
                            !.parents = @ \o
                               [n \in 1..Len(ids) |->
                                  [testcase_id |-> ids[n],
                                   requirement_id |-> tc(n).requirement_id,
                                   parent |-> get_req_issue_key(run.req_keys,
                                                                requirements, tc(n))]]]
    /\ UNCHANGED <<version_status, requirements, testcases, one, events>>
    /\ UNCHANGED <<clientVars, reconVars, archiveVars, tokenVars, payloadVars, raceVars, endpointVars>>

\* jira_client.create_bulk_issues(uid, cloud_id, issue_payloads): when it
\* raises, the inner except logs and the loop goes on
RunBulkCreate(ok) ==
    /\ run.pc = "bulk"
    /\ LET ids == Batch(run.new, run.i)
       IN  IF ok
             THEN /\ events' = Append(events, Event("bulk", run.kind, ids, "returned"))
                  /\ run' = [run EXCEPT !.pc = AfterCreate, !.k = 1, !.results = {}]
             ELSE /\ events' = Append(events, Event("bulk", run.kind, ids, "raised"))
                  /\ EndBatch(run.req_keys)
    /\ UNCHANGED <<version_status, requirements, testcases, one>>
    /\ UNCHANGED <<clientVars, reconVars, archiveVars, tokenVars, payloadVars, raceVars, endpointVars>>

\* sync_entities_on_alm, its search: when it raises, the except of line 196
\* logs and the function returns None
RunSearch(ok) ==
    /\ run.pc = "search"
    /\ LET ids == Batch(run.new, run.i)
       IN  IF ok
             THEN /\ events' = Append(events, Event("search", run.kind, ids, "returned"))
                  /\ run' = [run EXCEPT !.pc = "write", !.k = 1, !.results = {}]
             ELSE /\ events' = Append(events, Event("search", run.kind, ids, "raised"))
                  /\ EndBatch([isNone |-> TRUE, ids |-> {}])
    /\ UNCHANGED <<version_status, requirements, testcases, one>>
    /\ UNCHANGED <<clientVars, reconVars, archiveVars, tokenVars, payloadVars, raceVars, endpointVars>>

\* sync_entities_on_alm, one iteration of its loop: the id is matched or
\* not, and the store write is applied or raises (then the function
\* returns None); after the last id the results are returned
RunWrite(match, dbOk) ==
    /\ run.pc = "write"
    /\ LET ids == Batch(run.new, run.i)
           id  == ids[run.k]
           v   == IF match THEN "SUCCESS" ELSE "FAILED"
           res == IF match THEN run.results \cup {id} ELSE run.results
       IN  IF dbOk
             THEN /\ WriteToolCreated(run.kind, id, v)
                  /\ events' = Append(events, Event("write", run.kind, <<id>>, v))
                  /\ IF run.k = Len(ids)
                       THEN EndBatch([isNone |-> FALSE, ids |-> res])
                       ELSE run' = [run EXCEPT !.k = @ + 1, !.results = res]
             ELSE /\ EndBatch([isNone |-> TRUE, ids |-> {}])
                  /\ UNCHANGED <<requirements, testcases, events>>
    /\ UNCHANGED <<version_status, one>>
    /\ UNCHANGED <<clientVars, reconVars, archiveVars, tokenVars, payloadVars, raceVars, endpointVars>>

\* jira_client.update_issue for one deprecated testcase: a raise is logged
\* and the loop goes on
RunUpdateDeprecated(ok) ==
    /\ run.pc = "update"
    /\ events' = Append(events, Event("update", "testcases", <<run.dep[run.d]>>,
                                      IF ok THEN "returned" ELSE "raised"))
    /\ run' = [run EXCEPT !.d = @ + 1,
                          !.pc = IF run.d = Len(run.dep) THEN "status_complete" ELSE "update"]
    /\ UNCHANGED <<version_status, requirements, testcases, one>>
    /\ UNCHANGED <<clientVars, reconVars, archiveVars, tokenVars, payloadVars, raceVars, endpointVars>>

\* the outer except: ERR_ALM_ISSUE_CREATION is written; when that write
\* raises too the run ends with the exception
RunHandler(ok) ==
    /\ run.pc = "handler"
    /\ IF ok
         THEN /\ version_status' = "ERR_ALM_ISSUE_CREATION"
              /\ events' = Append(events, Event("status", "", <<>>, "ERR_ALM_ISSUE_CREATION"))
              /\ run' = [run EXCEPT !.pc = "done"]
         ELSE /\ run' = [run EXCEPT !.pc = "crashed"]
              /\ UNCHANGED <<version_status, events>>
    /\ UNCHANGED <<requirements, testcases, one>>
    /\ UNCHANGED <<clientVars, reconVars, archiveVars, tokenVars, payloadVars, raceVars, endpointVars>>

(* create_one_testcase_on_alm / create_one_requirement_on_alm *)

\* the entity the single operation is called for
OneId == IF one.kind = "testcases" THEN TcId(1) ELSE ReqId(1)

\* the operation ends: it returns to its caller or raises an HTTPException
OneEnd(r) == [one EXCEPT !.pc = "done", !.result = r]

\* db.get_project_details and the check of the three connection fields:
\* when one is missing the operation returns (lines 372, 427)
OneDetails(outcome) ==
    /\ one.pc = "details"
    /\ one' = CASE outcome = "found"   -> [one EXCEPT !.pc = "read"]
                [] outcome = "missing" -> OneEnd("returned")
                [] outcome = "raise"   -> OneEnd("raised")
    /\ UNCHANGED <<version_status, requirements, testcases, run, events>>
    /\ UNCHANGED <<clientVars, reconVars, archiveVars, tokenVars, payloadVars, raceVars, endpointVars>>

\* the read of the entity: 404 is raised when it does not exist
OneRead(outcome) ==
    /\ one.pc = "read"
    /\ LET exists == IF one.kind = "testcases" THEN Len(testcases) >= 1
                                              ELSE Len(requirements) >= 1
       IN  one' = CASE outcome = "found" /\ exists  -> [one EXCEPT !.pc = "create"]
                    [] outcome = "found" /\ ~exists -> OneEnd("raised")
                    [] outcome = "raise"            -> OneEnd("raised")
    /\ UNCHANGED <<version_status, requirements, testcases, run, events>>
    /\ UNCHANGED <<clientVars, reconVars, archiveVars, tokenVars, payloadVars, raceVars, endpointVars>>

\* jira_client.create_issue: when it raises, HTTPException 500 is raised
OneCreate(ok) ==
    /\ one.pc = "create"
    /\ IF ok
         THEN /\ events' = Append(events, Event("create", one.kind, <<OneId>>, "returned"))
              /\ one' = [one EXCEPT !.pc = AfterCreate, !.created = TRUE]
         ELSE /\ events' = Append(events, Event("create", one.kind, <<OneId>>, "raised"))
              /\ one' = OneEnd("raised")
    /\ UNCHANGED <<version_status, requirements, testcases, run>>
    /\ UNCHANGED <<clientVars, reconVars, archiveVars, tokenVars, payloadVars, raceVars, endpointVars>>

\* sync_entities_on_alm with the one id, its search: when it raises the
\* function logs and returns, and so does the operation
OneSearch(ok) ==
    /\ one.pc = "search"
    /\ IF ok
         THEN /\ events' = Append(events, Event("search", one.kind, <<OneId>>, "returned"))
              /\ one' = [one EXCEPT !.pc = "write"]
         ELSE /\ events' = Append(events, Event("search", one.kind, <<OneId>>, "raised"))
              /\ one' = OneEnd("returned")
    /\ UNCHANGED <<version_status, requirements, testcases, run>>
    /\ UNCHANGED <<clientVars, reconVars, archiveVars, tokenVars, payloadVars, raceVars, endpointVars>>

\* sync_entities_on_alm with the one id, its store write: when it raises
\* the function logs and returns, and so does the operation
OneWrite(match, dbOk) ==
    /\ one.pc = "write"
    /\ IF dbOk
         THEN /\ WriteToolCreated(one.kind, OneId, IF match THEN "SUCCESS" ELSE "FAILED")
              /\ events' = Append(events, Event("write", one.kind, <<OneId>>,
                                                IF match THEN "SUCCESS" ELSE "FAILED"))
              /\ one' = [OneEnd("returned") EXCEPT !.written = TRUE]
         ELSE /\ one' = OneEnd("returned")
              /\ UNCHANGED <<requirements, testcases, events>>
    /\ UNCHANGED <<version_status, run>>
    /\ UNCHANGED <<clientVars, reconVars, archiveVars, tokenVars, payloadVars, raceVars, endpointVars>>

\* every document with change_analysis_status NEW has toolCreated SUCCESS
AllNewSynced ==
    /\ \A i \in 1..Len(requirements) : ~IsNewEntity(requirements[i])
    /\ \A i \in 1..Len(testcases) :
          testcases[i].change_analysis_status = "NEW" => testcases[i].toolCreated = "SUCCESS"

\* a version with its documents, and one operation called on it: the run
\* over the whole version, or a single-entity operation; run.rerun records
\* that the run started on a version whose new entities were all created
SyncInit ==
    /\ ClientIdle /\ hasCred = TRUE
    /\ EndpointIdle
    /\ ReconIdle
    /\ ArchiveIdle
    /\ TokenIdle
    /\ PayloadIdle
    /\ RaceIdle
    /\ version_status = "CONFIRM_TESTCASES"
    /\ requirements \in RequirementLists
    /\ testcases \in TestcaseLists
    /\ events = <<>>
    /\ \/ /\ run = [NoRun EXCEPT !.pc = "start", !.rerun = AllNewSynced]
          /\ one = NoOne
       \/ /\ run = NoRun
          /\ Len(requirements) <= 1 /\ Len(testcases) <= 1
          /\ \E kind \in {"testcases", "requirements"} :
                one = [NoOne EXCEPT !.pc = "details", !.kind = kind]

SyncNext ==
    \/ \E ok \in BOOLEAN : RunWriteStatus(ok)
    \/ \E outcome \in {"found", "missing", "raise"} : RunDetails(outcome)
    \/ \E ok \in BOOLEAN : RunReadRequirements(ok)
    \/ \E ok \in BOOLEAN : RunReadTestcases(ok)
    \/ \E readOk \in BOOLEAN : RunPayloads(readOk)
    \/ \E ok \in BOOLEAN : RunBulkCreate(ok)
    \/ \E ok \in BOOLEAN : RunSearch(ok)
    \/ \E match \in BOOLEAN, dbOk \in BOOLEAN : RunWrite(match, dbOk)
    \/ \E ok \in BOOLEAN : RunUpdateDeprecated(ok)
    \/ \E ok \in BOOLEAN : RunHandler(ok)
    \/ \E outcome \in {"found", "missing", "raise"} : OneDetails(outcome)
    \/ \E outcome \in {"found", "raise"} : OneRead(outcome)
    \/ \E ok \in BOOLEAN : OneCreate(ok)
    \/ \E ok \in BOOLEAN : OneSearch(ok)
    \/ \E match \in BOOLEAN, dbOk \in BOOLEAN : OneWrite(match, dbOk)

SyncSpec == SyncInit /\ [][SyncNext]_vars

(* Claims about the issue creation *)

\* the statuses written so far, in order
StatusWrites ==
    LET s == SelectSeq(events, LAMBDA ev : ev.e = "status")
    IN  [i \in 1..Len(s) |-> s[i].v]

\* the order of the statuses of a run
PhaseOrder ==
    <<"START_ALM_ISSUE_CREATION", "CREATE_ALM_NEW_REQUIREMENTS", "CREATE_ALM_NEW_TESTCASES",
      "UPDATE_ALM_DEP_ISSUES", "COMPLETE_ALM_ISSUE_CREATION">>

\* x is an element of the sequence s
InSeq(x, s) == \E i \in 1..Len(s) : s[i] = x

\* the ids of the bulk-create calls of a kind among the first n events, in
\* call order
RECURSIVE BulkIds(_, _)
BulkIds(kind, n) ==
    IF n = 0 THEN <<>>
    ELSE IF events[n].e = "bulk" /\ events[n].kind = kind
           THEN BulkIds(kind, n - 1) \o events[n].ids
           ELSE BulkIds(kind, n - 1)

\* toolCreated of the document of an entity
ToolCreatedOf(kind, id) ==
    IF kind = "requirements" THEN requirements[id[2]].toolCreated
                             ELSE testcases[id[2]].toolCreated

C13_PhasesInOrder ==
    /\ \A i \in 1..Len(StatusWrites) :
          \/ i <= Len(PhaseOrder) /\ StatusWrites[i] = PhaseOrder[i]
          \/ i = Len(StatusWrites) /\ StatusWrites[i] = "ERR_ALM_ISSUE_CREATION"
    /\ \A p \in 1..Len(events), kind \in {"requirements", "testcases"} :
          ( /\ events[p].e = "status"
            /\ events[p].v = IF kind = "requirements" THEN "CREATE_ALM_NEW_TESTCASES"
                                                      ELSE "UPDATE_ALM_DEP_ISSUES" ) =>
              /\ \E q \in 1..(p - 1) :
                    /\ events[q].e = "select" /\ events[q].kind = kind
                    /\ BulkIds(kind, p) = events[q].ids
              /\ \A q \in (p + 1)..Len(events) :
                    events[q].e \in {"bulk", "search", "write"} => events[q].kind # kind

\* a finished run that made two bulk-create calls for its requirements
C13_Witness ==
    /\ run.pc = "done" /\ StatusWrites = PhaseOrder
    /\ Len(SelectSeq(events, LAMBDA ev : ev.e = "bulk" /\ ev.kind = "requirements")) = 2

\* C14: a run in which no call fails but bulk-create calls and
\* reconciliations (no status write and no store read of the flow raises,
\* the project details are there) returns with COMPLETE_ALM_ISSUE_CREATION
\* stored, having gone through every phase.
C14_BatchFailureDoesNotAbort ==
    (run.pc = "done" /\ run.cause \notin {"status", "details", "read"}) =>
        /\ version_status = "COMPLETE_ALM_ISSUE_CREATION"
        /\ StatusWrites = PhaseOrder

\* C15: a run started on a version in which every NEW entity already has
\* toolCreated SUCCESS makes no create call, no search and no entity write.
C15_RerunCreatesNothing ==
    run.rerun =>
        \A p \in 1..Len(events) : events[p].e \notin {"bulk", "create", "search", "write"}

\* a finished second run over a version with created NEW entities
C15_Witness ==
    /\ run.pc = "done" /\ run.rerun
    /\ StatusWrites = PhaseOrder
    /\ \E i \in 1..Len(requirements) : requirements[i].toolCreated = "SUCCESS"
    /\ \E i \in 1..Len(testcases) :
          /\ testcases[i].change_analysis_status = "NEW"
          /\ testcases[i].toolCreated = "SUCCESS"

\* C16: when a run has returned, for each kind whose new entities it selected
\* the bulk-create calls of that kind are ceil(N / batch_size) in number,
\* each of at most batch_size ids, and their ids in call order are the
\* selected ids in input order.
C16_BatchCount ==
    run.pc = "done" =>
        \A q \in 1..Len(events) :
            events[q].e = "select" =>
                LET kind == events[q].kind
                    n    == Len(events[q].ids)
                    bulk == SelectSeq(events, LAMBDA ev : ev.e = "bulk" /\ ev.kind = kind)
                IN  /\ Len(bulk) = (n + batch_size - 1) \div batch_size
                    /\ \A b \in 1..Len(bulk) : Len(bulk[b].ids) <= batch_size
                    /\ BulkIds(kind, Len(events)) = events[q].ids

\* C18: a single-entity operation that has returned to its caller has
\* created the issue and written the reconciliation of the entity.
C18_NeverSilent ==
    (one.pc = "done" /\ one.result = "returned") => (one.created /\ one.written)

\* C19: when the operation has ended, every entity covered by a create
\* call that raised (the single create, or the bulk create of its batch)
\* has toolCreated FAILED.
C19_CreateFailureRecorded ==
    (run.pc = "done" \/ one.pc = "done") =>
        \A p \in 1..Len(events) :
            (events[p].e \in {"bulk", "create"} /\ events[p].v = "raised") =>
                \A x \in 1..Len(events[p].ids) :
                    ToolCreatedOf(events[p].kind, events[p].ids[x]) = "FAILED"

\* C20: every entity write is preceded by a create call that covers the
\* entity and has returned, and, after that call, by a search for the
\* entity's batch that has returned.
C20_NoSpeculativeWrite ==
    \A p \in 1..Len(events) :
        events[p].e = "write" =>
            \E c \in 1..(p - 1), s \in 1..(p - 1) :
                /\ c < s
                /\ events[c].e \in {"bulk", "create"} /\ events[c].v = "returned"
                /\ events[c].kind = events[p].kind
                /\ InSeq(events[p].ids[1], events[c].ids)
                /\ events[s].e = "search" /\ events[s].v = "returned"
                /\ events[s].kind = events[p].kind
                /\ events[s].ids = events[c].ids

\* a finished run that wrote a requirement of its second batch
C20_Witness ==
    /\ run.pc = "done"
    /\ \E p \in 1..Len(events) :
          /\ events[p].e = "write" /\ events[p].kind = "requirements"
          /\ events[p].ids = <<ReqId(3)>>

\* the update calls of the run, in the order they were made
UpdateCalls == SelectSeq(events, LAMBDA ev : ev.e = "update")

\* C26: a run that has entered the phase of the deprecated testcases
\* (UPDATE_ALM_DEP_ISSUES written) and has ended without a status write
\* raising has made one update call for each testcase that is DEPRECATED
\* and not deleted, in the order of the testcase list, and for no other
\* entity, whether these calls returned or raised, and has stored
\* COMPLETE_ALM_ISSUE_CREATION.
C26_DeprecatedUpdates ==
    (/\ run.pc = "done" /\ run.cause # "status"
     /\ \E p \in 1..Len(events) :
           events[p].e = "status" /\ events[p].v = "UPDATE_ALM_DEP_ISSUES") =>
        LET dep == SelectSeq(testcases,
                             LAMBDA tc : tc.change_analysis_status = "DEPRECATED"
                                         /\ ~tc.deleted)
        IN  /\ Len(UpdateCalls) = Len(dep)
            /\ \A k \in 1..Len(dep) :
                  /\ UpdateCalls[k].kind = "testcases"
                  /\ UpdateCalls[k].ids = <<dep[k].testcase_id>>
            /\ version_status = "COMPLETE_ALM_ISSUE_CREATION"

\* a finished run over two deprecated testcases whose first update raised
\* and whose second returned
C26_Witness ==
    /\ run.pc = "done" /\ version_status = "COMPLETE_ALM_ISSUE_CREATION"
    /\ Len(UpdateCalls) = 2
    /\ UpdateCalls[1].v = "raised" /\ UpdateCalls[2].v = "returned"
    /\ UpdateCalls[1].ids = <<TcId(1)>> /\ UpdateCalls[2].ids = <<TcId(2)>>

\* C36: no create call of the run for testcases carries a testcase that is
\* marked deleted.
C36_DeletedNeverCreated ==
    \A n \in 1..Len(events) :
        (events[n].e = "bulk" /\ events[n].kind = "testcases") =>
            \A m \in 1..Len(events[n].ids) : \A t \in 1..Len(testcases) :
                testcases[t].testcase_id = events[n].ids[m] => ~testcases[t].deleted

\* C37: testcase payloads are built in the testcase phase only, after
\* every call made for requirements; the parent key of every testcase
\* payload is the toolIssueKey stored on the testcase's requirement when
\* that requirement is SUCCESS, whether it was reconciled in the last
\* batch, in an earlier batch or in an earlier run, and it is None only
\* when the requirement holds no key.
C37_ParentIsRequirementKey ==
    /\ run.parents # <<>> => run.kind = "testcases"
    /\ \A n, m \in 1..Len(events) :
          (n < m /\ events[n].kind = "testcases") => events[m].kind # "requirements"
    /\ \A n \in 1..Len(run.parents) : \A i \in 1..Len(requirements) :
          requirements[i].requirement_id = run.parents[n].requirement_id =>
              /\ requirements[i].toolCreated = "SUCCESS" =>
                    /\ run.parents[n].parent # <<>>
                    /\ run.parents[n].parent = requirements[i].toolIssueKey
              /\ run.parents[n].parent = <<>> => requirements[i].toolIssueKey = <<>>

\* a run of two requirement batches: the requirement of the testcase was
\* reconciled in the first, req_keys holds the second only, and the
\* payload of the testcase has the key stored for its requirement
C37_Witness ==
    /\ run.pc = "done" /\ version_status = "COMPLETE_ALM_ISSUE_CREATION"
    /\ ~run.req_keys.isNone /\ run.req_keys.ids = {ReqId(3)}
    /\ Len(run.parents) >= 1
    /\ run.parents[1].requirement_id = ReqId(1)
    /\ run.parents[1].parent = MatchKey(ReqId(1))
    /\ requirements[1].toolIssueKey = MatchKey(ReqId(1))

----------------------------------------------------------------------------
(* The credential store: get_usage_access_token over the credential record *)
(* (db.get_secret_path) and the secret manager (get_secret, store_secret), *)
(* and the check of the token every client operation begins with.          *)

\* largest number of token pairs the token endpoint issues
MaxIssued == 2

Users == {"u1", "u2"}

\* the operations of the client that begin with get_usage_access_token(uid)
ClientOps == {"create_one", "create_bulk", "update", "search"}

GOOGLE_CLOUD_PROJECT == "proj"

\* secret_name = f'jira-tokens-{uid}' of the OAuth callback
SecretName(uid) == IF uid = "u1" THEN "jira-tokens-u1" ELSE "jira-tokens-u2"

\* store_secret: secret_path = f'projects/{GOOGLE_CLOUD_PROJECT}/secrets/{secret_name}'
StorePath(secret_name) == <<"projects", GOOGLE_CLOUD_PROJECT, "secrets", secret_name>>

\* secret_path.split('/')[-1]
SplitLast(secret_path) == secret_path[Len(secret_path)]

SecretPaths == { StorePath(SecretName(u)) : u \in Users }

\* the n-th token pair issued for user u (the pair of the OAuth callback is
\* the 0-th)
TokenPair(u, n) == [access_token |-> <<u, n>>, refresh_token |-> <<u, n>>]

\* sm.get_secret(secret_path): the payload of versions/latest
get_secret(secret_path) == secret[secret_path][Len(secret[secret_path])]

NoRet == [kind |-> "", token |-> <<>>]
NoPrev == [uid |-> "", new_set |-> FALSE, ret |-> NoRet]

NoCall == [pc |-> "idle", uid |-> "", new_set |-> FALSE, caller |-> "",
           secret_path |-> <<>>, new_tokens |-> <<>>, ret |-> NoRet,
           reads |-> 0, exchanges |-> 0, stores |-> 0, before |-> <<>>,
           error |-> "", proceeds |-> FALSE, prev |-> NoPrev]

\* a refresh that reads the secret again without having stored the new pair
AfterExchange_NoStore == "reread"

\* get_usage_access_token after the token exchange has returned: line 432
\* stores the new pair
AfterExchange == "store"

\* an operation that goes on with whatever the token lookup returned
AfterToken_Unchecked(ret) == "proceed"

\* `if not access_token: raise Exception('Access token not found')`
AfterToken(ret) == IF ret.kind = "None" THEN "raise" ELSE "proceed"

\* get_usage_access_token returns r or raises (r.kind = "raised"): control
\* is back in the calling operation, or with the caller of a direct call
TokReturn(r) ==
    [tcall EXCEPT !.ret = r, !.pc = IF tcall.caller = "direct" THEN "ended" ELSE "op"]

\* a call of get_usage_access_token(uid, new_set), made directly or as the
\* first statement of a client operation
TokBegin(u, newSet, caller) ==
    /\ tcall.pc \in {"idle", "ended"}
    /\ tcall' = [NoCall EXCEPT
                    !.pc = "path", !.uid = u, !.new_set = newSet, !.caller = caller,
                    !.before = secret,
                    !.prev = IF tcall.pc = "ended"
                               THEN [uid |-> tcall.uid, new_set |-> tcall.new_set,
                                     ret |-> tcall.ret]
                               ELSE NoPrev]
    /\ UNCHANGED <<secret_path_doc, secret, issued, clientVars, reconVars, archiveVars,
                   syncVars, payloadVars, raceVars, endpointVars>>

\* db.get_secret_path and the return of None for a missing record
TokPath(ok) ==
    /\ tcall.pc = "path"
    /\ tcall' = IF ~ok
                  THEN TokReturn([NoRet EXCEPT !.kind = "raised"])
                  ELSE IF secret_path_doc[tcall.uid] = <<>>
                         THEN TokReturn([NoRet EXCEPT !.kind = "None"])
                         ELSE [tcall EXCEPT !.pc = "read",
                                            !.secret_path = secret_path_doc[tcall.uid]]
    /\ UNCHANGED <<secret_path_doc, secret, issued, clientVars, reconVars, archiveVars,
                   syncVars, payloadVars, raceVars, endpointVars>>

\* sm.get_secret(secret_path) and, without new_set, the return of the
\* stored access token
TokRead(ok) ==
    /\ tcall.pc = "read"
    /\ LET t == [tcall EXCEPT !.reads = @ + 1]
       IN  tcall' =
             IF ~ok
               THEN [TokReturn([NoRet EXCEPT !.kind = "raised"]) EXCEPT !.reads = @ + 1]
               ELSE IF ~tcall.new_set
                      THEN [TokReturn([kind |-> "token",
                                       token |-> get_secret(tcall.secret_path).access_token])
                               EXCEPT !.reads = @ + 1]
                      ELSE [t EXCEPT !.pc = "exchange"]
    /\ UNCHANGED <<secret_path_doc, secret, issued, clientVars, reconVars, archiveVars,
                   syncVars, payloadVars, raceVars, endpointVars>>

\* refresh_access_token(refresh_token): the token endpoint answers with a
\* new pair, or the call raises
TokExchange(ok) ==
    /\ tcall.pc = "exchange"
    /\ IF ok
         THEN /\ issued < MaxIssued
              /\ issued' = issued + 1
              /\ tcall' = [tcall EXCEPT !.exchanges = @ + 1, !.pc = AfterExchange,
                                        !.new_tokens = TokenPair(tcall.uid, issued + 1)]
         ELSE /\ issued' = issued
              /\ tcall' = [TokReturn([NoRet EXCEPT !.kind = "raised"])
                              EXCEPT !.exchanges = @ + 1]
    /\ UNCHANGED <<secret_path_doc, secret, clientVars, reconVars, archiveVars, syncVars,
                   payloadVars, raceVars, endpointVars>>

\* sm.store_secret(secret_name, json.dumps(new_tokens)): a new version of
\* the secret of that name
TokStore(ok) ==
    /\ tcall.pc = "store"
    /\ IF ok
         THEN /\ secret' = [secret EXCEPT ![StorePath(SplitLast(tcall.secret_path))] =
                                               Append(@, tcall.new_tokens)]
              /\ tcall' = [tcall EXCEPT !.stores = @ + 1, !.pc = "reread"]
         ELSE /\ secret' = secret
              /\ tcall' = TokReturn([NoRet EXCEPT !.kind = "raised"])
    /\ UNCHANGED <<secret_path_doc, issued, clientVars, reconVars, archiveVars, syncVars,
                   payloadVars, raceVars, endpointVars>>

\* the second sm.get_secret(secret_path) and the return of its access token
TokReread(ok) ==
    /\ tcall.pc = "reread"
    /\ tcall' = [TokReturn(IF ok
                             THEN [kind |-> "token",
                                   token |-> get_secret(tcall.secret_path).access_token]
                             ELSE [NoRet EXCEPT !.kind = "raised"])
                    EXCEPT !.reads = @ + 1]
    /\ UNCHANGED <<secret_path_doc, secret, issued, clientVars, reconVars, archiveVars,
                   syncVars, payloadVars, raceVars, endpointVars>>

\* the statements of a client operation after the token lookup: an
\* exception of the lookup propagates, a missing token raises, and with a
\* token the operation goes on to build and send its request
OpCheckToken ==
    /\ tcall.pc = "op"
    /\ tcall' = [tcall EXCEPT
                    !.pc = "ended",
                    !.error = CASE tcall.ret.kind = "raised" -> "propagated"
                                [] AfterToken(tcall.ret) = "raise" -> "Access token not found"
                                [] OTHER -> "",
                    !.proceeds = tcall.ret.kind # "raised"
                                 /\ AfterToken(tcall.ret) = "proceed"]
    /\ UNCHANGED <<secret_path_doc, secret, issued, clientVars, reconVars, archiveVars,
                   syncVars, payloadVars, raceVars, endpointVars>>

\* every user has either no credential record, or the record and the
\* secret the OAuth callback has stored for them
TokenInit ==
    /\ ClientIdle /\ hasCred = TRUE
    /\ EndpointIdle
    /\ ReconIdle
    /\ ArchiveIdle
    /\ SyncIdle
    /\ PayloadIdle
    /\ RaceIdle
    /\ secret_path_doc \in [Users -> {<<>>} \cup SecretPaths]
    /\ \A u \in Users : secret_path_doc[u] \in {<<>>, StorePath(SecretName(u))}
    /\ secret = [q \in SecretPaths |->
                    IF \E u \in Users : secret_path_doc[u] = q
                      THEN <<TokenPair(CHOOSE u \in Users : secret_path_doc[u] = q, 0)>>
                      ELSE <<>>]
    /\ issued = 0
    /\ tcall = NoCall

TokenNext ==
    \/ \E u \in Users, newSet \in BOOLEAN, caller \in {"direct"} \cup ClientOps :
           TokBegin(u, newSet, caller)
    \/ \E ok \in BOOLEAN : TokPath(ok)
    \/ \E ok \in BOOLEAN : TokRead(ok)
    \/ \E ok \in BOOLEAN : TokExchange(ok)
    \/ \E ok \in BOOLEAN : TokStore(ok)
    \/ \E ok \in BOOLEAN : TokReread(ok)
    \/ OpCheckToken

TokenSpec == TokenInit /\ [][TokenNext]_vars

(* Claims about the credential store *)

\* the call of get_usage_access_token has returned a value to its caller
TokReturned == tcall.pc \in {"op", "ended"} /\ tcall.ret.kind \in {"None", "token"}

\* C24: a call get_usage_access_token(uid, new_set=True) that returns has
\* made exactly one token exchange and one store, the secret the
\* credential record points to holds the versions it held before followed
\* by the pair the exchange returned, no other secret has changed, and the
\* access token of that pair is what the call returns; a call without
\* new_set for the same user that follows it returns that same token.
C24_RefreshStoresAndReturns ==
    /\ (TokReturned /\ tcall.new_set /\ tcall.ret.kind = "token") =>
          /\ tcall.exchanges = 1 /\ tcall.stores = 1
          /\ secret[secret_path_doc[tcall.uid]] =
                Append(tcall.before[secret_path_doc[tcall.uid]], tcall.new_tokens)
          /\ \A q \in SecretPaths :
                q # secret_path_doc[tcall.uid] => secret[q] = tcall.before[q]
          /\ tcall.ret.token = tcall.new_tokens.access_token
    /\ (/\ TokReturned /\ ~tcall.new_set /\ tcall.ret.kind = "token"
        /\ tcall.prev.uid = tcall.uid /\ tcall.prev.new_set
        /\ tcall.prev.ret.kind = "token") =>
          tcall.ret.token = tcall.prev.ret.token

\* a plain call that returned the token of the refresh made just before it
C24_Witness ==
    /\ TokReturned /\ ~tcall.new_set /\ tcall.ret.kind = "token"
    /\ tcall.prev.uid = tcall.uid /\ tcall.prev.new_set
    /\ tcall.prev.ret.kind = "token"
    /\ tcall.ret.token = <<tcall.uid, issued>>
    /\ Len(secret[secret_path_doc[tcall.uid]]) = 2

\* C25: for a user without credential record, a call of
\* get_usage_access_token whose record lookup returned gives None without
\* a secret read, a token exchange or a store; a client operation that
\* began with it raises 'Access token not found' and does not go on to its
\* request.
C25_NoCredentialNoRequest ==
    (tcall.pc \in {"op", "ended"} /\ secret_path_doc[tcall.uid] = <<>>
        /\ tcall.ret.kind # "raised") =>
        /\ tcall.ret.kind = "None"
        /\ tcall.reads = 0 /\ tcall.exchanges = 0 /\ tcall.stores = 0
        /\ secret = tcall.before
        /\ (tcall.pc = "ended" /\ tcall.caller \in ClientOps) =>
              (tcall.error = "Access token not found" /\ ~tcall.proceeds)

\* a search called for a user without credential record has raised
C25_Witness ==
    /\ tcall.pc = "ended" /\ tcall.caller = "search"
    /\ secret_path_doc[tcall.uid] = <<>>
    /\ tcall.ret.kind = "None"
    /\ tcall.error = "Access token not found"

----------------------------------------------------------------------------
(* Issue payloads: get_jira_requirement_payload and                        *)
(* get_jira_testcase_payload of the issue creation, and the payloads       *)
(* create_one_testcase and create_bulk_testcases of the client build       *)
(* themselves.  Of a payload the summary (of the two payloads of the       *)
(* issue creation), the issue type, the parent and the labels are          *)
(* followed.                                                               *)

\* largest number of entities an operation builds payloads for
MaxDocs == 2

PayloadOps == {"requirements", "testcases", "client_bulk", "client_one"}

\* the length above which a summary is cut
SummaryLimit == 200

\* a text of n characters, a sequence of its characters
Text(n) == [i \in 1..n |-> IF i % 2 = 0 THEN "a" ELSE "b"]

\* the texts of the entities: empty, short, of the limit's length and longer
Texts == { Text(n) : n \in {0, 1, SummaryLimit, SummaryLimit + 1} }

Ellipsis == <<".", ".", ".">>

\* the requirement documents of a batch
PayloadRequirements == [requirement_id : {"REQ-1", "REQ-2"}, requirement : Texts]

\* the testcase dicts handed to the client; "" stands for a field that is
\* missing, None or empty
ClientTestcases ==
    [testcase_id : {"TC-1", "TC-2", ""}, requirement_id : {"REQ-1"},
     title : {Text(1), Text(0)}, description : {"text", ""}]

\* the testcase documents of a batch
PayloadTestcases ==
    [testcase_id : {"TC-1", "TC-2"}, requirement_id : {"REQ-1"},
     title : Texts, description : {"text", ""}]

\* what get_req_issue_key returns for the requirement of a testcase ("":
\* None)
ParentKeys == {"", "KEY-1"}

\* a requirement payload without the id among its labels
get_jira_requirement_payload_NoIdLabel(requirement) ==
    [summary |-> <<>>, issuetype |-> "Task", parent |-> "",
     labels |-> <<"AI_Generated", "Created_by_Captain", "Requirement">>]

\* get_jira_requirement_payload(requirement, project_key)
get_jira_requirement_payload(requirement) ==
    [summary |->
        LET req_id   == requirement.requirement_id
            req_text == requirement.requirement
        IN  IF Len(req_text) > SummaryLimit
              THEN <<"[", req_id, "]", " ">> \o SubSeq(req_text, 1, SummaryLimit) \o Ellipsis
              ELSE <<"[", req_id, "]", " ">> \o req_text \o Ellipsis,
     issuetype |-> "Task", parent |-> "",
     labels |-> <<"AI_Generated", "Created_by_Captain", "Requirement",
                  requirement.requirement_id>>]

\* get_jira_testcase_payload(testcase, req_issue_key, project_key)
get_jira_testcase_payload(testcase, req_issue_key) ==
    [summary |->
        LET title == testcase.title
        IN  IF Len(title) > SummaryLimit
              THEN SubSeq(title, 1, SummaryLimit) \o Ellipsis
              ELSE title,
     issuetype |-> "Subtask", parent |-> req_issue_key,
     labels |-> <<"AI_Generated", "Created_by_Captain", "Testcase",
                  testcase.testcase_id>>]

\* the payload built inside create_one_testcase and create_bulk_testcases
ClientPayload(testcase) ==
    [summary |-> testcase.title, issuetype |-> "Task", parent |-> "",
     labels |-> <<"AI_Generated", "Created_by_Captain", "Testcase",
                  testcase.testcase_id, testcase.requirement_id>>]

\* the field check of the client: a testcase without title, description
\* or testcase_id gets no payload
ClientValid(testcase) ==
    testcase.title # <<>> /\ testcase.description # "" /\ testcase.testcase_id # ""

\* the lists an operation is called with
PayloadInputs(o) ==
    CASE o = "requirements" -> UNION { [1..n -> PayloadRequirements] : n \in 1..MaxDocs }
      [] o = "testcases"    -> UNION { [1..n -> PayloadTestcases] : n \in 1..MaxDocs }
      [] o = "client_bulk"  -> UNION { [1..n -> ClientTestcases] : n \in 0..MaxDocs }
      [] o = "client_one"   -> [1..1 -> ClientTestcases]

NoBuilt == [pc |-> "idle", op |-> "", docs |-> <<>>, i |-> 1, payloads |-> <<>>,
            sent |-> <<>>, requests |-> 0]

\* an operation is called with a list of entities
BuildBegin(o, docs) ==
    /\ built.pc = "idle"
    /\ docs \in PayloadInputs(o)
    /\ built' = [NoBuilt EXCEPT !.op = o, !.docs = docs,
                                !.pc = IF docs = <<>> THEN "send" ELSE "build"]
    /\ UNCHANGED <<clientVars, reconVars, archiveVars, syncVars, tokenVars, raceVars, endpointVars>>

\* the payload of the next entity of the list: built, or skipped by the
\* field check of create_bulk_testcases, or create_one_testcase returns
\* None for it
BuildOne(key) ==
    /\ built.pc = "build"
    /\ key = "" \/ built.op = "testcases"
    /\ LET doc  == built.docs[built.i]
           next == IF built.i = Len(built.docs) THEN "send" ELSE "build"
           with(p) == [built EXCEPT !.i = @ + 1, !.pc = next,
                                    !.payloads = Append(@, [entity |-> doc, payload |-> p])]
       IN  built' =
             CASE built.op = "requirements" -> with(get_jira_requirement_payload(doc))
               [] built.op = "testcases"    -> with(get_jira_testcase_payload(doc, key))
               [] built.op = "client_bulk"  ->
                     IF ClientValid(doc) THEN with(ClientPayload(doc))
                     ELSE [built EXCEPT !.i = @ + 1, !.pc = next]
               [] built.op = "client_one"   ->
                     IF ClientValid(doc) THEN with(ClientPayload(doc))
                     ELSE [built EXCEPT !.pc = "done"]
    /\ UNCHANGED <<clientVars, reconVars, archiveVars, syncVars, tokenVars, raceVars, endpointVars>>

\* the create request with the payloads built: create_bulk_issues /
\* create_issue of the issue creation, the POST of the client
BuildSend ==
    /\ built.pc = "send"
    /\ built' = [built EXCEPT !.pc = "done", !.sent = built.payloads, !.requests = @ + 1]
    /\ UNCHANGED <<clientVars, reconVars, archiveVars, syncVars, tokenVars, raceVars, endpointVars>>

PayloadInit ==
    /\ ClientIdle /\ hasCred = TRUE
    /\ EndpointIdle
    /\ ReconIdle
    /\ ArchiveIdle
    /\ SyncIdle
    /\ TokenIdle
    /\ RaceIdle
    /\ built = NoBuilt

PayloadNext ==
    \/ \E o \in PayloadOps : \E docs \in PayloadInputs(o) : BuildBegin(o, docs)
    \/ \E key \in ParentKeys : BuildOne(key)
    \/ BuildSend

PayloadSpec == PayloadInit /\ [][PayloadNext]_vars

(* Claims about the payloads *)

\* the labels of a payload, as a set
LabelSet(p) == { p.labels[n] : n \in 1..Len(p.labels) }

\* C28: every payload built for an entity has among its labels
\* AI_Generated, Created_by_Captain, the label of the entity's kind and the
\* entity's id, and the id is not empty; the payloads of a create request
\* are payloads built so.
C28_PayloadLabels ==
    /\ \A k \in 1..Len(built.payloads) :
          LET e  == built.payloads[k].entity
              id == IF built.op = "requirements" THEN e.requirement_id ELSE e.testcase_id
          IN  /\ id # ""
              /\ { "AI_Generated", "Created_by_Captain", id,
                   IF built.op = "requirements" THEN "Requirement" ELSE "Testcase" }
                    \subseteq LabelSet(built.payloads[k].payload)
    /\ \A k \in 1..Len(built.sent) :
          \E m \in 1..Len(built.payloads) : built.sent[k] = built.payloads[m]

\* a bulk create of the client over a testcase without id and one with id:
\* one payload was sent, that of the second
C28_Witness ==
    /\ built.pc = "done" /\ built.op = "client_bulk" /\ Len(built.docs) = 2
    /\ built.docs[1].testcase_id = "" /\ built.docs[1].title # <<>>
    /\ built.docs[1].description # ""
    /\ Len(built.sent) = 1
    /\ built.sent[1].entity = built.docs[2]
    /\ built.docs[2].testcase_id \in LabelSet(built.sent[1].payload)

\* the summary the claim C33 describes for a source text, after the prefix
\* of the payload: the text itself up to the limit, its first characters
\* and the marker beyond
MarkedIffLong(text) ==
    IF Len(text) > SummaryLimit
      THEN SubSeq(text, 1, SummaryLimit) \o Ellipsis
      ELSE text

\* C33: the summary of every requirement and testcase payload built by the
\* issue creation ends with the marker '...' exactly when the source text
\* is longer than 200 characters: a longer text is cut to its first 200
\* characters and the marker, a shorter one is used as it is.
C33_EllipsisIffLong ==
    \A k \in 1..Len(built.payloads) :
        LET e == built.payloads[k].entity
            p == built.payloads[k].payload
        IN  /\ built.op = "requirements" =>
                  p.summary = <<"[", e.requirement_id, "]", " ">> \o MarkedIffLong(e.requirement)
            /\ built.op = "testcases" => p.summary = MarkedIffLong(e.title)

----------------------------------------------------------------------------
(* Two runs of background_issue_creation_on_alm over one version.  The     *)
(* confirm endpoint hands every request to the background tasks, so two    *)
(* requests for one version give two runs whose store and tracker calls    *)
(* interleave.  The version holds requirements only: the phases of the     *)
(* testcases find nothing to do, and the status writes, which no run      *)
(* reads, are left to SyncSpec.                                            *)

RunIds == {1, 2}

\* the ids of the requirement documents of the version, in read order
SharedIds == <<"REQ-1", "REQ-2">>

\* a requirement document that was never synced
FreshDoc(id) ==
    [requirement_id |-> id, requirement |-> Text(1),
     change_analysis_status |-> "NEW", toolCreated |-> "",
     toolIssueKey |-> 0, toolIssueLink |-> <<>>]

\* the issue the tracker holds for a payload: `by` and `entity` name the
\* run and the entity it was created for
IssueOf(key, r, doc) ==
    [key |-> key, by |-> r, entity |-> doc.requirement_id,
     labels |-> { get_jira_requirement_payload(doc).labels[n] :
                    n \in 1..Len(get_jira_requirement_payload(doc).labels) }]

\* the issues the tracker returns for labels = '<label>', in its order
CreatedWithLabel(label) ==
    LET hits == SelectSeq(created, LAMBDA i : label \in i.labels)
    IN  [k \in 1..Len(hits) |->
            [key |-> hits[k].key, url |-> IssueUrl("site", hits[k].key),
             labels |-> hits[k].labels]]

NoRunState == [pc |-> "idle", requirements |-> <<>>, new |-> <<>>, bulk |-> "",
               jira_issues |-> <<>>, k |-> 1]

\* a selection that leaves out what another run in progress has selected
new_requirements_Exclusive(docs) ==
    SelectSeq(docs, LAMBDA d :
        /\ IsNewEntity(d)
        /\ ~\E r \in RunIds :
              /\ runs[r].pc \notin {"idle", "read", "done"}
              /\ \E n \in 1..Len(runs[r].new) : runs[r].new[n] = d)

\* new_requirements of lines 256-261: the documents read that are NEW and
\* not created, whatever other runs do
new_requirements(docs) == SelectSeq(docs, IsNewEntity)

\* the confirm endpoint hands the run to the background tasks; the run
\* comes to its read of the requirements
RaceStart(r) ==
    /\ runs[r].pc = "idle"
    /\ runs' = [runs EXCEPT ![r].pc = "read"]
    /\ UNCHANGED <<shared, created>>
    /\ UNCHANGED <<clientVars, reconVars, archiveVars, syncVars, tokenVars, payloadVars,
                   endpointVars>>

\* db.get_requirements and the selection of the new requirements
RaceRead(r) ==
    /\ runs[r].pc = "read"
    /\ runs' = [runs EXCEPT ![r].requirements = shared,
                            ![r].new = new_requirements(shared),
                            ![r].pc = IF new_requirements(shared) = <<>>
                                        THEN "end" ELSE "bulk"]
    /\ UNCHANGED <<shared, created>>
    /\ UNCHANGED <<clientVars, reconVars, archiveVars, syncVars, tokenVars, payloadVars,
                   endpointVars>>

\* create_bulk_issues with the payloads of the batch: the tracker creates
\* one issue per payload, or the call raises and the batch is given up
RaceBulk(r, ok) ==
    /\ runs[r].pc = "bulk"
    /\ IF ok
         THEN /\ created' = created \o
                    [n \in 1..Len(runs[r].new) |->
                        IssueOf(Len(created) + n, r, runs[r].new[n])]
              /\ runs' = [runs EXCEPT ![r].pc = "search", ![r].bulk = "returned"]
         ELSE /\ created' = created
              /\ runs' = [runs EXCEPT ![r].pc = "end", ![r].bulk = "raised"]
    /\ UNCHANGED shared
    /\ UNCHANGED <<clientVars, reconVars, archiveVars, syncVars, tokenVars, payloadVars,
                   endpointVars>>

\* sync_entities_on_alm, its search over the ids of the batch
RaceSearch(r, ok) ==
    /\ runs[r].pc = "search"
    /\ runs' = IF ok
                 THEN [runs EXCEPT
                          ![r].pc = "write", ![r].k = 1,
                          ![r].jira_issues =
                              CreatedWithLabel(SearchLabel(
                                  [n \in 1..Len(runs[r].new) |->
                                      runs[r].new[n].requirement_id]))]
                 ELSE [runs EXCEPT ![r].pc = "end"]
    /\ UNCHANGED <<shared, created>>
    /\ UNCHANGED <<clientVars, reconVars, archiveVars, syncVars, tokenVars, payloadVars,
                   endpointVars>>

\* sync_entities_on_alm, one iteration of its loop: the update of the
\* requirement document, which may raise
RaceWrite(r, ok) ==
    /\ runs[r].pc = "write"
    /\ LET id == runs[r].new[runs[r].k].requirement_id
           u  == SyncUpdate(runs[r].jira_issues, id)
           i  == CHOOSE n \in 1..Len(shared) : shared[n].requirement_id = id
       IN  IF ok
             THEN /\ shared' = [shared EXCEPT
                        ![i].toolCreated = u.toolCreated,
                        ![i].toolIssueKey = IF "toolIssueKey" \in u.fields
                                              THEN u.toolIssueKey ELSE @,
                        ![i].toolIssueLink = IF "toolIssueLink" \in u.fields
                                               THEN u.toolIssueLink ELSE @]
                  /\ runs' = [runs EXCEPT
                        ![r].k = @ + 1,
                        ![r].pc = IF runs[r].k = Len(runs[r].new) THEN "end" ELSE "write"]
             ELSE /\ shared' = shared
                  /\ runs' = [runs EXCEPT ![r].pc = "end"]
    /\ UNCHANGED created
    /\ UNCHANGED <<clientVars, reconVars, archiveVars, syncVars, tokenVars, payloadVars,
                   endpointVars>>

\* the rest of the run: the phases of the testcases, which are empty
RaceEnd(r) ==
    /\ runs[r].pc = "end"
    /\ runs' = [runs EXCEPT ![r].pc = "done"]
    /\ UNCHANGED <<shared, created>>
    /\ UNCHANGED <<clientVars, reconVars, archiveVars, syncVars, tokenVars, payloadVars,
                   endpointVars>>

\* a version whose requirements are NEW, each never synced or created by
\* an earlier run (run 0) whose issue the tracker holds
RaceInit ==
    /\ ClientIdle /\ hasCred = TRUE
    /\ EndpointIdle
    /\ ReconIdle
    /\ ArchiveIdle
    /\ SyncIdle
    /\ TokenIdle
    /\ PayloadIdle
    /\ runs = [r \in RunIds |-> NoRunState]
    /\ \E synced \in SUBSET {"REQ-1"} :
          /\ created = IF "REQ-1" \in synced
                         THEN <<IssueOf(1, 0, FreshDoc("REQ-1"))>> ELSE <<>>
          /\ shared = [n \in 1..Len(SharedIds) |->
                          IF SharedIds[n] \in synced
                            THEN [FreshDoc(SharedIds[n]) EXCEPT
                                     !.toolCreated = "SUCCESS", !.toolIssueKey = 1,
                                     !.toolIssueLink = IssueUrl("site", 1)]
                            ELSE FreshDoc(SharedIds[n])]

RaceNext ==
    \/ \E r \in RunIds : RaceStart(r)
    \/ \E r \in RunIds : RaceRead(r)
    \/ \E r \in RunIds, ok \in BOOLEAN : RaceBulk(r, ok)
    \/ \E r \in RunIds, ok \in BOOLEAN : RaceSearch(r, ok)
    \/ \E r \in RunIds, ok \in BOOLEAN : RaceWrite(r, ok)
    \/ \E r \in RunIds : RaceEnd(r)

RaceSpec == RaceInit /\ [][RaceNext]_vars

(* Claims about two runs *)

\* the ids a run has selected
SelectedBy(r) == { runs[r].new[n].requirement_id : n \in 1..Len(runs[r].new) }

\* C27: nothing excludes a run while another is in progress: what a run
\* selects is decided by the documents it read alone (the requirements
\* that were NEW and not SUCCESS at its read), and every run whose bulk
\* create returned has added one issue labelled with the id of each entity
\* it selected, so the tracker holds as many issues of these runs with an
\* entity's id as there are such runs that selected the entity.
C27_RunsNotExcluded ==
    /\ \A r \in RunIds :
          runs[r].pc \notin {"idle", "read"} =>
              runs[r].new = SelectSeq(runs[r].requirements,
                                      LAMBDA d : d.change_analysis_status = "NEW"
                                                 /\ d.toolCreated # "SUCCESS")
    /\ \A n \in 1..Len(SharedIds) :
          Cardinality({ k \in 1..Len(created) :
                          created[k].by # 0 /\ SharedIds[n] \in created[k].labels })
            = Cardinality({ r \in RunIds :
                              runs[r].bulk = "returned" /\ SharedIds[n] \in SelectedBy(r) })

\* both runs have selected REQ-1 and created an issue for it before either
\* has reconciled it: two issues carry the label REQ-1
C27_Witness ==
    /\ runs[1].pc = "search" /\ runs[2].pc = "search"
    /\ "REQ-1" \in SelectedBy(1) /\ "REQ-1" \in SelectedBy(2)
    /\ shared[1].toolCreated = ""
    /\ \E k, m \in 1..Len(created) :
          /\ k # m /\ created[k].by # created[m].by
          /\ "REQ-1" \in created[k].labels /\ "REQ-1" \in created[m].labels

----------------------------------------------------------------------------
(* create_on_jira: the testcases of a version are created on the tracker   *)
(* in batches, searched by the provenance label and marked SUCCESS or      *)
(* FAILED; the version status follows the flow.  A call of the store or of *)
(* the tracker returns or raises.                                          *)

\* largest number of testcase documents of the version
MaxFlowTcs == 2

\* batch_size of create_on_jira (40 in the code)
flow_batch_size == 1

\* the testcase documents of the version before the run; "" for a field
\* that is missing
FlowTestcases ==
    UNION { [1..n -> [testcase_id : {"TC-1", "TC-2", ""}, deleted : BOOLEAN,
                      created : {"", "SUCCESS", "FAILED"}, toolIssueLink : {<<>>}]] :
            n \in 0..MaxFlowTcs }

\* lines 22-23: the testcases that are not deleted and not created yet
FlowSelect(docs) ==
    SelectSeq(docs, LAMBDA tc : ~tc.deleted /\ tc.created # "SUCCESS")

NoFlow == [pc |-> "idle", status |-> "CONFIRM_TESTCASES", docs |-> <<>>,
           testcases |-> <<>>, i |-> 0, k |-> 1, creates |-> 0, found |-> {},
           log |-> <<>>, ret |-> "", cause |-> ""]

\* db.update_version(..., {'status': s}) at position `at`: the status is
\* stored and the flow goes on at `after`, or the call raises and the
\* except of line 122 logs it and the function ends
FlowStatus(at, ok, s, after) ==
    IF ok
      THEN [cj EXCEPT !.status = s, !.log = Append(@, s), !.pc = after]
      ELSE [cj EXCEPT !.pc = "done", !.cause = at]

\* the unchanged part of a step of the flow
FlowFrame ==
    /\ UNCHANGED <<oauth, gate>>
    /\ UNCHANGED <<clientVars, reconVars, archiveVars, syncVars, tokenVars, payloadVars,
                   raceVars>>

\* the endpoint hands create_on_jira over for a version
FlowBegin(docs) ==
    /\ cj.pc = "idle"
    /\ docs \in FlowTestcases
    /\ cj' = [cj EXCEPT !.pc = "start", !.docs = docs]
    /\ FlowFrame

\* lines 15-19
FlowStart(ok) ==
    /\ cj.pc = "start"
    /\ cj' = FlowStatus("start", ok, "START_JIRA_CREATION", "read")
    /\ FlowFrame

\* lines 21-27: the read, the two filters and the return when nothing is
\* left
FlowRead(ok) ==
    /\ cj.pc = "read"
    /\ cj' = IF ~ok
               THEN [cj EXCEPT !.pc = "done", !.cause = "read"]
               ELSE IF FlowSelect(cj.docs) = <<>>
                      THEN [cj EXCEPT !.pc = "done",
                                      !.ret = "No test cases found to sync."]
                      ELSE [cj EXCEPT !.pc = "project", !.testcases = FlowSelect(cj.docs)]
    /\ FlowFrame

\* lines 29-35: the project details and their check
FlowProject(outcome) ==
    /\ cj.pc = "project"
    /\ outcome \in {"complete", "incomplete", "raise"}
    /\ cj' = CASE outcome = "raise"      -> [cj EXCEPT !.pc = "done", !.cause = "project"]
               [] outcome = "incomplete" -> [cj EXCEPT !.pc = "no_project"]
               [] outcome = "complete"   -> [cj EXCEPT !.pc = "batch"]
    /\ FlowFrame

\* lines 36-41
FlowNoProject(ok) ==
    /\ cj.pc = "no_project"
    /\ cj' = FlowStatus("no_project", ok, "ERR_JIRA_CREATION", "done")
    /\ FlowFrame

\* lines 50-59: one batch; an exception of the create call is logged and
\* the loop goes on
FlowBatch(ok) ==
    /\ cj.pc = "batch"
    /\ cj' = [cj EXCEPT !.i = @ + flow_batch_size,
                        !.creates = IF ok THEN @ + 1 ELSE @,
                        !.pc = IF cj.i + flow_batch_size >= Len(cj.testcases)
                                 THEN "created" ELSE "batch"]
    /\ FlowFrame

\* lines 61-65
FlowCreated(ok) ==
    /\ cj.pc = "created"
    /\ cj' = FlowStatus("created", ok, "COMPLETE_JIRA_CREATION", "sync")
    /\ FlowFrame

\* lines 67-71
FlowSync(ok) ==
    /\ cj.pc = "sync"
    /\ cj' = FlowStatus("sync", ok, "START_JIRA_SYNC", "search")
    /\ FlowFrame

\* lines 74-80: the search by the provenance label; `ids` are the testcase
\* ids found among the labels of its issues
FlowSearch(ok, ids) ==
    /\ cj.pc = "search"
    /\ ids \subseteq {"TC-1", "TC-2"}
    /\ cj' = IF ok
               THEN [cj EXCEPT !.found = ids,
                               !.pc = IF cj.testcases = <<>> THEN "complete" ELSE "mark"]
               ELSE [cj EXCEPT !.pc = "search_failed"]
    /\ ok \/ ids = {}
    /\ FlowFrame

\* lines 81-86
FlowSearchFailed(ok) ==
    /\ cj.pc = "search_failed"
    /\ cj' = FlowStatus("search_failed", ok, "ERR_JIRA_SYNC", "done")
    /\ FlowFrame

\* lines 88-118: one testcase of the loop: skipped without id, marked
\* SUCCESS with the link of its issue, or marked FAILED; the write is an
\* update of the document of that id
FlowMark(ok) ==
    /\ cj.pc = "mark"
    /\ LET tc   == cj.testcases[cj.k]
           next == IF cj.k = Len(cj.testcases) THEN "complete" ELSE "mark"
           upd(d) == IF d.testcase_id # tc.testcase_id THEN d
                     ELSE IF tc.testcase_id \in cj.found
                            THEN [d EXCEPT !.created = "SUCCESS",
                                           !.toolIssueLink = <<"site", "/browse/", d.testcase_id>>]
                            ELSE [d EXCEPT !.created = "FAILED"]
       IN  cj' = IF tc.testcase_id = ""
                   THEN [cj EXCEPT !.k = @ + 1, !.pc = next]
                   ELSE IF ok
                          THEN [cj EXCEPT !.k = @ + 1, !.pc = next,
                                          !.docs = [n \in 1..Len(cj.docs) |-> upd(cj.docs[n])]]
                          ELSE [cj EXCEPT !.pc = "done", !.cause = "mark"]
    /\ FlowFrame

\* line 120
FlowComplete(ok) ==
    /\ cj.pc = "complete"
    /\ cj' = FlowStatus("complete", ok, "COMPLETE_JIRA_SYNC", "done")
    /\ FlowFrame

FlowInit ==
    /\ ClientIdle /\ hasCred = TRUE
    /\ ReconIdle
    /\ ArchiveIdle
    /\ SyncIdle
    /\ TokenIdle
    /\ PayloadIdle
    /\ RaceIdle
    /\ cj = NoFlow /\ oauth = <<>> /\ gate = <<>>

FlowNext ==
    \/ \E docs \in FlowTestcases : FlowBegin(docs)
    \/ \E ok \in BOOLEAN : FlowStart(ok)
    \/ \E ok \in BOOLEAN : FlowRead(ok)
    \/ \E outcome \in {"complete", "incomplete", "raise"} : FlowProject(outcome)
    \/ \E ok \in BOOLEAN : FlowNoProject(ok)
    \/ \E ok \in BOOLEAN : FlowBatch(ok)
    \/ \E ok \in BOOLEAN : FlowCreated(ok)
    \/ \E ok \in BOOLEAN : FlowSync(ok)
    \/ \E ok \in BOOLEAN, ids \in SUBSET {"TC-1", "TC-2"} : FlowSearch(ok, ids)
    \/ \E ok \in BOOLEAN : FlowSearchFailed(ok)
    \/ \E ok \in BOOLEAN : FlowMark(ok)
    \/ \E ok \in BOOLEAN : FlowComplete(ok)

FlowSpec == FlowInit /\ [][FlowNext]_vars

(* Claims about create_on_jira *)

\* C35: a run of create_on_jira that has ended has left the version status
\* at COMPLETE_JIRA_SYNC or at an ERR_ value, never at START_JIRA_CREATION
\* or START_JIRA_SYNC.
C35_EndsAtTerminalStatus ==
    cj.pc = "done" =>
        cj.status \in {"COMPLETE_JIRA_SYNC", "ERR_JIRA_CREATION", "ERR_JIRA_SYNC"}

----------------------------------------------------------------------------
(* The OAuth connection: jira_connect saves a state for the user, and      *)
(* jira_auth_callback checks the state it receives against the saved one   *)
(* before it exchanges the code and stores the tokens.  Both handlers are  *)
(* coroutines without an await, so each runs to its end before the other   *)
(* starts.                                                                 *)

\* largest number of requests to the two endpoints
MaxOauthEvents == 3

\* state = f'user_uid_{uid}', as the parts between its underscores
StateOf(uid) == <<"user", "uid", uid>>

\* the state parameters a callback can carry: the two a connect makes, one
\* made up for u1, and none
CallbackStates == { StateOf(u) : u \in Users } \cup { <<"made", "up", "u1">>, <<>> }

\* the code parameters a callback can carry ("": none)
AuthCodes == {"", "code1"}

\* state.split('_')[-1]
UidOf(state) == state[Len(state)]

\* a read of the saved state that leaves it in place
get_auth_state_KeepsState(saved, uid) ==
    [state |-> saved[uid], saved |-> saved]

\* get_auth_state(tool_name, uid): the saved state of the user, removed by
\* the read; None (<<>>) when there is none
get_auth_state(saved, uid) ==
    [state |-> saved[uid], saved |-> [saved EXCEPT ![uid] = <<>>]]

NoOauth == [saved |-> [u \in Users |-> <<>>], tokens |-> [u \in Users |-> <<>>],
            log |-> <<>>]

OauthFrame ==
    /\ UNCHANGED <<cj, gate>>
    /\ UNCHANGED <<clientVars, reconVars, archiveVars, syncVars, tokenVars, payloadVars,
                   raceVars>>

\* jira_connect: the state of the user is saved and the redirect URL
\* returned; an exception gives 500
Connect(u, ok) ==
    /\ Len(oauth.log) < MaxOauthEvents
    /\ oauth' = [oauth EXCEPT
                   !.saved = IF ok THEN [@ EXCEPT ![u] = StateOf(u)] ELSE @,
                   !.log = Append(@, [e |-> "connect", uid |-> u, state |-> StateOf(u),
                                      code |-> "", expected |-> <<>>, after |-> <<>>,
                                      response |-> IF ok THEN 200 ELSE 500,
                                      checked |-> FALSE, stored |-> FALSE])]
    /\ OauthFrame

\* jira_auth_callback: 400 without code or state; the saved state of the
\* uid named by the state is read and removed; 401 unless it equals the
\* state received; then the code is exchanged and the tokens are stored
\* (`exchange`: both succeed, or one of them raises and the answer is 500,
\* or the read of the saved state itself raised and the answer is 500)
Callback(state, code, exchange) ==
    /\ Len(oauth.log) < MaxOauthEvents
    /\ state \in CallbackStates /\ code \in AuthCodes
    /\ exchange \in {"stored", "raised", "read_raised"}
    /\ IF code = "" \/ state = <<>> \/ exchange = "read_raised"
         THEN /\ exchange = "stored" \/ (code # "" /\ state # <<>>)
              /\ oauth' = [oauth EXCEPT
                   !.log = Append(@, [e |-> "callback", uid |-> "", state |-> state,
                                      code |-> code, expected |-> <<>>, after |-> <<>>,
                                      response |-> IF exchange = "read_raised"
                                                     THEN 500 ELSE 400,
                                      checked |-> FALSE, stored |-> FALSE])]
         ELSE LET uid      == UidOf(state)
                  read     == get_auth_state(oauth.saved, uid)
                  expected_state == read.state
                  passed   == state = expected_state
                  stored   == passed /\ exchange = "stored"
              IN  /\ passed \/ exchange = "stored"
                  /\ oauth' = [oauth EXCEPT
                       !.saved = read.saved,
                       !.tokens = IF stored THEN [@ EXCEPT ![uid] = Append(@, code)] ELSE @,
                       !.log = Append(@, [e |-> "callback", uid |-> uid, state |-> state,
                                          code |-> code, expected |-> expected_state,
                                          after |-> read.saved[uid],
                                          response |-> IF ~passed THEN 401
                                                       ELSE IF stored THEN 307 ELSE 500,
                                          checked |-> TRUE, stored |-> stored])]
    /\ OauthFrame

OauthInit ==
    /\ ClientIdle /\ hasCred = TRUE
    /\ ReconIdle
    /\ ArchiveIdle
    /\ SyncIdle
    /\ TokenIdle
    /\ PayloadIdle
    /\ RaceIdle
    /\ cj = <<>> /\ oauth = NoOauth /\ gate = <<>>

OauthNext ==
    \/ \E u \in Users, ok \in BOOLEAN : Connect(u, ok)
    \/ \E state \in CallbackStates, code \in AuthCodes,
          exchange \in {"stored", "raised", "read_raised"} :
           Callback(state, code, exchange)

OauthSpec == OauthInit /\ [][OauthNext]_vars

(* Claims about the OAuth connection *)

\* the callbacks that got as far as the check of the state
ReachedCheck(n) ==
    oauth.log[n].e = "callback" /\ oauth.log[n].checked

----------------------------------------------------------------------------
(* Deletion of entities: mark_requirement_deleted and                      *)
(* mark_testcase_deleted read the version and mark the entity deleted when *)
(* the version is at the confirmation of that kind of entity.              *)

\* largest number of deletion requests
MaxGateRequests == 3

\* the status a version can hold when a request arrives: "" for a version
\* document without status, "absent" for a version that does not exist
GateStatuses ==
    {"", "CONFIRM_REQ_EXTRACT", "CONFIRM_TESTCASES", "START_ALM_ISSUE_CREATION", "absent"}

GateKinds == {"requirements", "testcases"}

\* the entity of each kind the version holds
GateEntity(kind) == IF kind = "requirements" THEN "REQ-1" ELSE "TC-1"

\* both endpoints gated on the confirmation of the testcases
GateStatus_TestcasesOnly(kind) == "CONFIRM_TESTCASES"

\* the status each endpoint compares the version status with
GateStatus(kind) ==
    IF kind = "requirements" THEN "CONFIRM_REQ_EXTRACT" ELSE "CONFIRM_TESTCASES"

NoGate == [status |-> "",
           docs |-> [k \in GateKinds |-> [deleted |-> FALSE, deleted_by |-> ""]],
           log |-> <<>>]

GateFrame ==
    /\ UNCHANGED <<cj, oauth>>
    /\ UNCHANGED <<clientVars, reconVars, archiveVars, syncVars, tokenVars, payloadVars,
                   raceVars>>

\* the answer of a deletion endpoint: 400 without an id; 500 when the
\* version does not exist (version_details is None); 403 unless the status
\* is the one of the endpoint; 500 when the store refuses the update
GateAnswer(kind, id, dbOk) ==
    CASE id = ""                         -> 400
      [] gate.status = "absent"          -> 500
      [] gate.status # GateStatus(kind)  -> 403
      [] ~dbOk                           -> 500
      [] OTHER                           -> 200

\* mark_requirement_deleted and mark_testcase_deleted for entity `id` of
\* the version, called by user `uid`
MarkDeleted(kind, id, uid, dbOk) ==
    /\ Len(gate.log) < MaxGateRequests
    /\ id \in {"", GateEntity(kind)}
    /\ LET answer == GateAnswer(kind, id, dbOk)
           docs   == IF answer = 200
                       THEN [gate.docs EXCEPT ![kind] = [deleted |-> TRUE, deleted_by |-> uid]]
                       ELSE gate.docs
       IN  gate' = [gate EXCEPT
                      !.docs = docs,
                      !.log = Append(@, [kind |-> kind, id |-> id, status |-> gate.status,
                                         response |-> answer, before |-> gate.docs,
                                         after |-> docs])]
    /\ GateFrame

\* the confirmation of the testcases: the issue creation starts and writes
\* its first status
GateConfirm ==
    /\ gate.status = "CONFIRM_TESTCASES"
    /\ gate' = [gate EXCEPT !.status = "START_ALM_ISSUE_CREATION"]
    /\ GateFrame

GateInit ==
    /\ ClientIdle /\ hasCred = TRUE
    /\ ReconIdle
    /\ ArchiveIdle
    /\ SyncIdle
    /\ TokenIdle
    /\ PayloadIdle
    /\ RaceIdle
    /\ cj = <<>> /\ oauth = <<>>
    /\ \E st \in GateStatuses : gate = [NoGate EXCEPT !.status = st]

GateNext ==
    \/ \E kind \in GateKinds, id \in {"", "REQ-1", "TC-1"}, uid \in Users, dbOk \in BOOLEAN :
           MarkDeleted(kind, id, uid, dbOk)
    \/ GateConfirm

GateSpec == GateInit /\ [][GateNext]_vars

(* Claims about the deletion of entities *)

\* C39: a deletion request changes the entities only by setting deleted on
\* the requirement while the status is CONFIRM_REQ_EXTRACT, or on the
\* testcase while the status is CONFIRM_TESTCASES; a request for an entity
\* of a version in any other status is answered 403 and leaves the
\* entities as they were; an entity is deleted only by such a request.
C39_DeletionGated ==
    /\ \A n \in 1..Len(gate.log) :
          LET r == gate.log[n]
          IN  /\ r.after # r.before =>
                    /\ r.status = IF r.kind = "requirements"
                                    THEN "CONFIRM_REQ_EXTRACT" ELSE "CONFIRM_TESTCASES"
                    /\ r.after[r.kind].deleted
                    /\ \A k \in GateKinds : k # r.kind => r.after[k] = r.before[k]
              /\ ( /\ r.id # "" /\ r.status # "absent"
                   /\ r.status # (IF r.kind = "requirements"
                                    THEN "CONFIRM_REQ_EXTRACT" ELSE "CONFIRM_TESTCASES") )
                 => (r.response = 403 /\ r.after = r.before)
    /\ \A k \in GateKinds :
          gate.docs[k].deleted =>
              \E n \in 1..Len(gate.log) :
                  gate.log[n].kind = k /\ gate.log[n].response = 200

\* the testcase was deleted at CONFIRM_TESTCASES; the same request for the
\* requirement at that status, and for the testcase once the issue
\* creation has started, were answered 403
C39_Witness ==
    /\ Len(gate.log) = 3
    /\ gate.log[1].kind = "requirements" /\ gate.log[1].status = "CONFIRM_TESTCASES"
    /\ gate.log[1].response = 403
    /\ gate.log[2].kind = "testcases" /\ gate.log[2].response = 200
    /\ gate.log[3].kind = "testcases" /\ gate.log[3].status = "START_ALM_ISSUE_CREATION"
    /\ gate.log[3].response = 403
    /\ gate.docs["testcases"].deleted /\ ~gate.docs["requirements"].deleted

====
